---- MODULE Spec2Model ----
(***************************************************************************)
(* A model of torchio: WeightedSampler (data/sampler/weighted.py), Motion  *)
(* and RandomMotion (transforms/augmentation/intensity/random_motion.py),  *)
(* the earlier RandomMotion (transforms/random_motion.py), Compose and     *)
(* OneOf (transforms/augmentation/composition.py) and CenterCropOrPad      *)
(* (transforms/preprocessing/spatial/center_crop_pad.py).  Each class has  *)
(* its own variables and its own specification, the others held idle.      *)
(*                                                                         *)
(* Arrays are functions over 0..n-1 (C order flat indices); a 3D index is  *)
(* a triple <<i, j, k>>.  float64 probabilities are fixed-point numbers in *)
(* units of 1/Unit, every division rounding to the nearest unit, so that a *)
(* cumulative sum can end below or above 1 as it does in floating point.   *)
(* torch.rand's draw u in [0, 1) is one of 0..Unit-1 in the same units.    *)
(***************************************************************************)
EXTENDS Integers, Sequences, FiniteSets, TLC

\* ------------------------------------------------------------------ bounds
MaxDim == 3
MaxVoxels == 4
MaxVal == 2
MaxPatches == 1
Unit == 6

MaxLength == 4
MaxTransforms == 2
TimeGrid == 4

MaxPulls == MaxPatches + 1

MaxNumTransforms == 6
MaxImages == 3
MaxKeys == 2
MaxWeight == 2
Mantissa == 3
GeneratorBits == 4
MaxShift == 4

\* ------------------------------------------------------------- python bits
None == <<>>
Axes == 1..3
MapName == "sampling_map"
ImageName == "t1"

Max2(a, b) == IF a > b THEN a ELSE b
Min2(a, b) == IF a < b THEN a ELSE b

NumVoxels(shape) == shape[1] * shape[2] * shape[3]
Voxels(shape) == 0..(NumVoxels(shape) - 1)

\* np.unravel_index(f, shape), C order
Unravel(f, shape) ==
    << f \div (shape[2] * shape[3]), (f \div shape[3]) % shape[2], f % shape[3] >>

Ravel(c, shape) == (c[1] * shape[2] + c[2]) * shape[3] + c[3]

\* ndarray.sum()
ArraySum(arr) ==
    LET n == Cardinality(DOMAIN arr)
        s[p \in 0..n] == IF p = 0 THEN 0 ELSE s[p - 1] + arr[p - 1]
    IN s[n]

\* ndarray.max()
ArrayMax(arr) == CHOOSE m \in {arr[p] : p \in DOMAIN arr} : \A q \in DOMAIN arr : arr[q] <= m

\* a / b for a >= 0, b > 0, in units of 1/Unit, rounded to the nearest unit
FDiv(a, b) == (2 * a * Unit + b) \div (2 * b)

\* ------------------------------------------------------------------ state
VARIABLES
    sampler,          \* the WeightedSampler object's fields
    subject,          \* the Subject: image name -> buffer holding its data
    heap,             \* buffer -> flat array (tensors/ndarrays may share one)
    spatial_shape,    \* sample.spatial_shape
    num_patches,      \* the argument of __call__: [none, n]
    pc,               \* the generator: created, suspended, done, raised
    err,              \* the exception it raised, or "None"
    probability_map,  \* locals of __call__ kept across yields
    cdf,
    sort_indices,
    patches_left,
    yielded,          \* patches handed to the caller so far
    patch,            \* the last of them
    center,           \* the center sample_probability_map returned for it
    rng_draws,        \* calls of torch.rand so far
    map_read,         \* sample[probability_map_name].data was read
    \* Motion.add_artifact
    motion_pc,        \* idle, called, returned
    times,            \* the times argument, each in units of 1/TimeGrid
    axis,             \* the axis argument: 0, 1 or 2
    spectrum_shape,   \* the shape of every spectrum
    spectra,          \* the list of spectra by pose (0: the unresampled image)
    segments,         \* the slices (ini, fin) taken along the axis, in order
    result_spectrum,  \* index along the axis -> the spectra written there, in order
    result_image,     \* the image add_artifact returns, named by its pose
    \* RandomMotion
    rm_pc,            \* idle, new, constructed, raised, returned
    rm_num_transforms,\* the num_transforms argument: [type, twice] (twice its value)
    rm_self,          \* the RandomMotion object's fields, None before construction
    rm_err,           \* the exception raised, or "None"
    rm_draws,         \* random numbers drawn so far
    rm_times,         \* the times get_params returned, in units of step / 10
    rm_is_2d,         \* get_params' argument is_2d
    rm_generator,     \* the random generator's state when get_params was called
    rm_degrees,       \* the degrees_params get_params returned
    rm_translation,   \* the translation_params get_params returned
    \* Motion.apply_transform
    ap_pc,            \* idle, built, returned, raised
    ap_self,          \* the Motion object: argument name -> "dict" or "value"
    ap_images,        \* the number of intensity images of the subject
    ap_answers,       \* what arguments_are_dict returned, image by image
    ap_lookups,       \* image by image, the arguments read as self.<arg>[image_name]
    ap_modified,      \* images given new data by set_data
    ap_err,           \* the exception raised, or "None"
    ap_fault,         \* what is wrong with the arguments' contents, if anything
    \* OneOf
    oo_pc,            \* idle, new, constructed, raised
    oo_transforms,    \* the transforms argument: [kind, dict, sequence]
    oo_transforms_dict, \* self.transforms_dict: object -> probability [num, den]
    oo_err,           \* the exception raised, or "None"
    \* Motion.get_rigid_transforms, Motion.resample_images
    rt_pc,            \* idle, called, transformed, resampled
    rt_image,         \* the sitk image: [origin, size, data]
    rt_degrees_params, \* one row of three angles per pose
    rt_translation_params, \* one row of three shifts per pose
    rt_transforms,    \* what get_rigid_transforms returned
    rt_images,        \* what resample_images returned
    \* transforms/random_motion.py (the earlier RandomMotion)
    lg_pc,            \* idle, or the method called, or returned
    lg_A,             \* matrix_exp: the argument A
    lg_exp,           \* matrix_exp: [j, approximant, X]
    lg_transforms,    \* demean_transforms: the matrices of the trajectory
    lg_demeaned,      \* demean_transforms: the matrices it returns
    lg_length,        \* add_artifact: the length of the last axis of the spectra
    lg_num_images,    \* add_artifact: len(images)
    lg_result,        \* add_artifact: last-axis index -> the spectra written there, in order
    \* two lazy sequences of one WeightedSampler
    tw_sampler,       \* the WeightedSampler object both sequences come from
    tw_subjects,      \* sequence -> the probability map of its subject
    tw_pc,            \* sequence -> created, suspended, raised
    tw_frames,        \* sequence -> the locals of its __call__
    tw_centers,       \* sequence -> the flat centers of the patches it yielded, in order
    tw_pulls,         \* the sequences pulled so far, in order
    \* Compose
    co_pc,            \* idle, constructed, returned, raised
    co_transforms,    \* self.transforms: the members, each [id, invertible]
    co_inverse,       \* the transforms of the Compose that inverse() returns
    co_warnings,      \* the members a RuntimeWarning was given for, in order
    co_err,           \* the exception raised, or "None"
    \* CenterCropOrPad
    cp_pc,            \* idle, built, returned
    cp_bounds_parameters,\* self.bounds_parameters, from the size given
    cp_source_shape,  \* the shape of the sample images
    cp_cropping_params,\* what Crop was built with, None when nothing is cropped
    cp_padding_params,\* what Pad was built with, None when nothing is padded
    cp_shape          \* the shape of the images of the sample returned

varsSampler == << sampler, subject, heap, spatial_shape, num_patches, pc, err,
                  probability_map, cdf, sort_indices, patches_left, yielded,
                  patch, center, rng_draws, map_read >>

varsMotion == << motion_pc, times, axis, spectrum_shape, spectra, segments,
                 result_spectrum, result_image >>

varsRandomMotion ==
    << rm_pc, rm_num_transforms, rm_self, rm_err, rm_draws, rm_times,
       rm_is_2d, rm_generator, rm_degrees, rm_translation >>

varsApply ==
    << ap_pc, ap_self, ap_images, ap_answers, ap_lookups, ap_modified, ap_err,
       ap_fault >>

varsOneOf == << oo_pc, oo_transforms, oo_transforms_dict, oo_err >>

varsRigid == << rt_pc, rt_image, rt_degrees_params, rt_translation_params, rt_transforms, rt_images >>

varsLegacy == << lg_pc, lg_A, lg_exp, lg_transforms, lg_demeaned, lg_length, lg_num_images, lg_result >>

varsPair ==
    << tw_sampler, tw_subjects, tw_pc, tw_frames, tw_centers, tw_pulls >>

varsCompose ==
    << co_pc, co_transforms, co_inverse, co_warnings, co_err >>

varsCropOrPad ==
    << cp_pc, cp_bounds_parameters, cp_source_shape, cp_cropping_params, cp_padding_params, cp_shape >>

vars ==
    << varsSampler, varsMotion, varsRandomMotion, varsApply,
       varsOneOf, varsRigid, varsLegacy, varsPair,
       varsCompose, varsCropOrPad >>

\* what an operation of one class leaves alone: the state of the others
notSampler ==
    << varsMotion, varsRandomMotion, varsApply, varsOneOf,
       varsRigid, varsLegacy, varsPair, varsCompose,
       varsCropOrPad >>
notMotion ==
    << varsSampler, varsRandomMotion, varsApply, varsOneOf,
       varsRigid, varsLegacy, varsPair, varsCompose,
       varsCropOrPad >>
notRandomMotion ==
    << varsSampler, varsMotion, varsApply, varsOneOf,
       varsRigid, varsLegacy, varsPair, varsCompose,
       varsCropOrPad >>
notApply ==
    << varsSampler, varsMotion, varsRandomMotion, varsOneOf,
       varsRigid, varsLegacy, varsPair, varsCompose,
       varsCropOrPad >>
notOneOf ==
    << varsSampler, varsMotion, varsRandomMotion, varsApply,
       varsRigid, varsLegacy, varsPair, varsCompose,
       varsCropOrPad >>
notRigid ==
    << varsSampler, varsMotion, varsRandomMotion, varsApply,
       varsOneOf, varsLegacy, varsPair, varsCompose,
       varsCropOrPad >>
notLegacy ==
    << varsSampler, varsMotion, varsRandomMotion, varsApply,
       varsOneOf, varsRigid, varsPair, varsCompose,
       varsCropOrPad >>
notPair ==
    << varsSampler, varsMotion, varsRandomMotion, varsApply,
       varsOneOf, varsRigid, varsLegacy, varsCompose,
       varsCropOrPad >>
notCompose ==
    << varsSampler, varsMotion, varsRandomMotion, varsApply,
       varsOneOf, varsRigid, varsLegacy, varsPair,
       varsCropOrPad >>
notCropOrPad ==
    << varsSampler, varsMotion, varsRandomMotion, varsApply,
       varsOneOf, varsRigid, varsLegacy, varsPair,
       varsCompose >>

\* --------------------------------------------------- clear_probability_borders
CropIni(patch_size) == [a \in Axes |-> patch_size[a] \div 2]

\* (mutant) the far border as wide as the near one
CropFinHalf(patch_size) == [a \in Axes |-> patch_size[a] \div 2]

CropFin(patch_size) == [a \in Axes |-> (patch_size[a] - 1) \div 2]

\* (mutant) the far border is left as it is
InClearedBorderNearOnly(c, shape, patch_size) ==
    \E a \in Axes : c[a] < CropIni(patch_size)[a]

\* probability_map[:crop] = 0 along axis a, then "if crop: probability_map[-crop:] = 0"
InClearedBorder(c, shape, patch_size) ==
    \E a \in Axes :
        \/ c[a] < CropIni(patch_size)[a]
        \/ /\ CropFin(patch_size)[a] # 0
           /\ c[a] >= Max2(shape[a] - CropFin(patch_size)[a], 0)

clear_probability_borders(data, shape, patch_size) ==
    [f \in DOMAIN data |->
        IF InClearedBorder(Unravel(f, shape), shape, patch_size) THEN 0 ELSE data[f]]

\* ---------------------------------------------------------- get_probability_map
\* (mutant) torch.all in place of torch.any
get_probability_map_error_all(sample, hp, name) ==
    IF name \notin DOMAIN sample THEN "KeyError"
    ELSE IF \A f \in DOMAIN hp[sample[name]] : hp[sample[name]][f] < 0 THEN "ValueError"
    ELSE "None"

\* the exception get_probability_map raises, or "None"
get_probability_map_error(sample, hp, name) ==
    IF name \notin DOMAIN sample THEN "KeyError"
    ELSE IF \E f \in DOMAIN hp[sample[name]] : hp[sample[name]][f] < 0 THEN "ValueError"
    ELSE "None"

\* ------------------------------------------------------ process_probability_map
\* (mutant) no copy: the array shares the tensor's buffer
astype_shared(hp, ref) == [ref |-> ref, heap |-> hp]

\* probability_map[0].numpy().astype(np.float64): a new buffer with a copy
astype(hp, ref) ==
    [ref |-> "data",
     heap |-> [b \in DOMAIN hp \cup {"data"} |-> IF b \in DOMAIN hp THEN hp[b] ELSE hp[ref]]]

\* if data.sum() == 0: data += 1
make_uniform(data) ==
    IF ArraySum(data) = 0 THEN [f \in DOMAIN data |-> data[f] + 1] ELSE data

Divide(data, total) == [f \in DOMAIN data |-> FDiv(data[f], total)]

\* data /= data.sum()
normalize(data) == Divide(data, ArraySum(data))

\* the buffer `data` names after the in-place steps, and "assert data.sum() > 0"
Processed(hp, ref, data) ==
    [ref |-> ref,
     heap |-> [hp EXCEPT ![ref] = data],
     err |-> IF ArraySum(data) > 0 THEN "None" ELSE "AssertionError"]

\* (mutant) the borders cleared before the zero-sum test and the normalisation
ProcessClearFirst(copy, shape, patch_size) ==
    Processed(copy.heap, copy.ref,
              normalize(make_uniform(
                  clear_probability_borders(copy.heap[copy.ref], shape, patch_size))))

ProcessInPlace(copy, shape, patch_size) ==
    Processed(copy.heap, copy.ref,
              clear_probability_borders(normalize(make_uniform(copy.heap[copy.ref])),
                                        shape, patch_size))

process_probability_map(hp, ref, shape, patch_size) ==
    ProcessInPlace(astype(hp, ref), shape, patch_size)

\* ------------------------------------------- get_cumulative_distribution_function
\* np.argsort: position of f among the values, ties by index
Rank(flat, f) ==
    Cardinality({g \in DOMAIN flat : flat[g] < flat[f] \/ (flat[g] = flat[f] /\ g < f)})

\* (mutant) the map is left in index order
argsort_unsorted(flat) == [p \in DOMAIN flat |-> p]

argsort(flat) == [p \in DOMAIN flat |-> CHOOSE f \in DOMAIN flat : Rank(flat, f) = p]

\* np.cumsum
cumsum(arr) ==
    [p \in DOMAIN arr |-> ArraySum([q \in 0..p |-> arr[q]])]

\* flat_map / flat_map.sum()
flat_map_normalized(data) == Divide(data, ArraySum(data))

\* (mutant) the values are left in index order
TakeUnsorted(arr, order) == [p \in DOMAIN order |-> arr[p]]

\* flat_map_normalized[sort_indices]
Take(arr, order) == [p \in DOMAIN order |-> arr[order[p]]]

CdfSorted(normalized, order) ==
    [cdf |-> cumsum(Take(normalized, order)), sort_indices |-> order]

CdfOf(normalized) == CdfSorted(normalized, argsort(normalized))

get_cumulative_distribution_function(data) == CdfOf(flat_map_normalized(data))

\* ------------------------------------------------------- sample_probability_map
\* np.argmax(random_number < cdf): the first True, 0 when there is none
argmax_less(u, c) ==
    IF \E p \in DOMAIN c : u < c[p]
    THEN CHOOSE p \in DOMAIN c : u < c[p] /\ \A q \in DOMAIN c : u < c[q] => p <= q
    ELSE 0

\* cdf_index: -1, the last position, when random_number > cdf.max()
cdf_index(u, c) ==
    IF u > ArrayMax(c) THEN Cardinality(DOMAIN c) - 1 ELSE argmax_less(u, c)

\* "assert probability > 0" on the voxel picked
Picked(data, location) ==
    [location |-> location,
     err |-> IF data[location] > 0 THEN "None" ELSE "AssertionError"]

\* the flat index of the center, and whether the assertion fails
sample_probability_map(data, c, order, u) == Picked(data, order[cdf_index(u, c)])

\* ---------------------------------------------------------- get_random_index_ini
\* index_ini = center - self.patch_size // 2
index_ini_of(c, patch_size) == [a \in Axes |-> c[a] - patch_size[a] \div 2]

\* "assert np.all(center >= 0)", "assert np.all(index_ini >= 0)"
Located(s, ctr, ini) ==
    [center |-> ctr,
     index_ini |-> ini,
     err |-> IF s.err # "None" THEN s.err
             ELSE IF \E a \in Axes : ctr[a] < 0 \/ ini[a] < 0 THEN "AssertionError"
             ELSE "None"]

LocateCenter(s, ctr, patch_size) == Located(s, ctr, index_ini_of(ctr, patch_size))

LocateSample(s, shape, patch_size) ==
    LocateCenter(s, Unravel(s.location, shape), patch_size)

get_random_index_ini(data, c, order, u, shape, patch_size) ==
    LocateSample(sample_probability_map(data, c, order, u), shape, patch_size)

\* ------------------------------------------------------------------- crop
\* get_crop_transform(sample, index_ini, patch_size)(sample): every image cropped
\* to the box [index_ini, index_ini + patch_size) into an array of its own
crop(hp, sample, shape, index_ini, patch_size) ==
    [name \in DOMAIN sample |->
        [f \in Voxels(patch_size) |->
            LET c == Unravel(f, patch_size)
                at == [a \in Axes |-> index_ini[a] + c[a]]
            IN IF \A a \in Axes : at[a] >= 0 /\ at[a] < shape[a]
               THEN hp[sample[name]][Ravel(at, shape)]
               ELSE 0]]

\* cropped_sample['index_ini'] = index_ini.astype(int)
extract_patch(hp, sample, shape, index_ini, patch_size) ==
    [images |-> crop(hp, sample, shape, index_ini, patch_size), index_ini |-> index_ini]

NoPatch == [images |-> None, index_ini |-> None]

\* ------------------------------------------------------------------- inputs
Shapes == {s \in [Axes -> 1..MaxDim] : NumVoxels(s) <= MaxVoxels}

\* every patch size that fits, and the shape grown by one along one axis
PatchSizes(shape) ==
    {ps \in [Axes -> 1..(MaxDim + 1)] :
        \/ \A a \in Axes : ps[a] <= shape[a]
        \/ \E a \in Axes : ps = [shape EXCEPT ![a] = shape[a] + 1]}

\* The maps a subject may carry, negative entries included
ProbabilityMaps(shape) == [Voxels(shape) -> (-1)..MaxVal]

NumPatchesArgs ==
    {[none |-> TRUE, n |-> 0]} \cup {[none |-> FALSE, n |-> k] : k \in (-1)..MaxPatches}

\* WeightedSampler.__init__
NewSampler(patch_size, name) ==
    [patch_size |-> patch_size, probability_map_name |-> name,
     cdf |-> None, sort_indices |-> None]

InitSampler ==
    /\ spatial_shape \in Shapes
    /\ \E ps \in PatchSizes(spatial_shape) : sampler = NewSampler(ps, MapName)
    /\ \E names \in {{ImageName}, {ImageName, MapName}} :
          /\ subject = [name \in names |-> name]
          /\ \E m \in IF MapName \in names THEN ProbabilityMaps(spatial_shape) ELSE {None} :
                heap = [b \in names |->
                           IF b = MapName THEN m
                           ELSE [f \in Voxels(spatial_shape) |-> f + 1]]
    /\ num_patches = [none |-> TRUE, n |-> 0]
    /\ pc = "created"
    /\ err = "None"
    /\ probability_map = "None"
    /\ cdf = None
    /\ sort_indices = None
    /\ patches_left = [isTrue |-> FALSE, n |-> 0]
    /\ yielded = 0
    /\ patch = NoPatch
    /\ center = None
    /\ rng_draws = 0
    /\ map_read = FALSE

\* ----------------------------------------------------------------- __call__
\* torch.rand(1).item(): a value of [0, 1)
Draws == 0..(Unit - 1)

\* "while patches_left:" on an int or on True
Truthy(pl) == pl.isTrue \/ pl.n # 0

Raise(e) ==
    /\ pc' = "raised"
    /\ err' = e

\* (mutant) >= in place of >
patch_not_smaller(patch_size, shape) == \E a \in Axes : patch_size[a] >= shape[a]

\* np.any(self.patch_size > sample.spatial_shape)
patch_too_large(patch_size, shape) == \E a \in Axes : patch_size[a] > shape[a]

\* One turn of the while loop up to its yield, or the generator's end.  The
\* random number is drawn inside sample_probability_map, and only there.
LoopTurn(hp, pm, c, order, pl) ==
    /\ patches_left' = pl
    /\ IF ~Truthy(pl)
       THEN /\ pc' = "done"
            /\ UNCHANGED << err, yielded, patch, center, rng_draws >>
       ELSE \E u \in Draws :
            \E r \in {get_random_index_ini(hp[pm], c, order, u, spatial_shape,
                                           sampler.patch_size)} :
               /\ rng_draws' = rng_draws + 1
               /\ IF r.err # "None"
                  THEN /\ Raise(r.err)
                       /\ UNCHANGED << yielded, patch, center >>
                  ELSE /\ pc' = "suspended"
                       /\ yielded' = yielded + 1
                       /\ center' = r.center
                       /\ patch' = extract_patch(hp, subject, spatial_shape, r.index_ini,
                                                 sampler.patch_size)
                       /\ UNCHANGED err

\* sampler(sample, num_patches) and the first next() on the generator it
\* returns: the body up to the first yield.  num_patches is the argument of the
\* call; nothing before the loop reads it.
Start ==
    /\ pc = "created"
    /\ UNCHANGED << sampler, subject, spatial_shape >>
    /\ UNCHANGED notSampler
    /\ IF patch_too_large(sampler.patch_size, spatial_shape)
       THEN /\ Raise("RuntimeError")
            /\ num_patches' \in NumPatchesArgs
            /\ UNCHANGED << heap, probability_map, cdf, sort_indices, patches_left,
                            yielded, patch, center, rng_draws, map_read >>
       ELSE \E e \in {get_probability_map_error(subject, heap, sampler.probability_map_name)} :
               /\ map_read' = (sampler.probability_map_name \in DOMAIN subject)
               /\ IF e # "None"
                  THEN /\ Raise(e)
                       /\ num_patches' \in NumPatchesArgs
                       /\ UNCHANGED << heap, probability_map, cdf, sort_indices,
                                       patches_left, yielded, patch, center, rng_draws >>
                  ELSE \E p \in {process_probability_map(
                                    heap, subject[sampler.probability_map_name],
                                    spatial_shape, sampler.patch_size)} :
                          /\ heap' = p.heap
                          /\ IF p.err # "None"
                             THEN /\ Raise(p.err)
                                  /\ num_patches' \in NumPatchesArgs
                                  /\ UNCHANGED << probability_map, cdf, sort_indices,
                                                  patches_left, yielded, patch, center,
                                                  rng_draws >>
                             ELSE \E d \in {get_cumulative_distribution_function(
                                                p.heap[p.ref])} :
                                  \E n \in NumPatchesArgs :
                                     /\ num_patches' = n
                                     /\ probability_map' = p.ref
                                     /\ cdf' = d.cdf
                                     /\ sort_indices' = d.sort_indices
                                     /\ LoopTurn(p.heap, p.ref, d.cdf, d.sort_indices,
                                                 [isTrue |-> n.none, n |-> n.n])

\* A later next(): "if num_patches is not None: patches_left -= 1", then the loop.
Resume ==
    /\ pc = "suspended"
    /\ yielded < MaxPulls
    /\ UNCHANGED notSampler
    /\ UNCHANGED << sampler, subject, heap, spatial_shape, num_patches,
                    probability_map, cdf, sort_indices, map_read >>
    /\ LoopTurn(heap, probability_map, cdf, sort_indices,
                IF num_patches.none THEN patches_left
                ELSE [patches_left EXCEPT !.n = patches_left.n - 1])

\* ------------------------------------------------------------- Motion.sort_spectra
\* (mutant) a time of exactly 0.5 counts as above it
sort_index_inclusive(ts, num_spectra) ==
    IF \E i \in 1..Len(ts) : 2 * ts[i] >= TimeGrid
    THEN (CHOOSE i \in 1..Len(ts) :
              /\ 2 * ts[i] >= TimeGrid
              /\ \A j \in 1..Len(ts) : 2 * ts[j] >= TimeGrid => i <= j) - 1
    ELSE num_spectra - 1

\* np.where(times > 0.5)[0].min(), or num_spectra - 1 (0-based)
sort_index(ts, num_spectra) ==
    IF \E i \in 1..Len(ts) : 2 * ts[i] > TimeGrid
    THEN (CHOOSE i \in 1..Len(ts) :
              /\ 2 * ts[i] > TimeGrid
              /\ \A j \in 1..Len(ts) : 2 * ts[j] > TimeGrid => i <= j) - 1
    ELSE num_spectra - 1

\* spectra[0], spectra[index] = spectra[index], spectra[0]
Swap(list, index) ==
    [i \in DOMAIN list |->
        IF i = 1 THEN list[index + 1] ELSE IF i = index + 1 THEN list[1] ELSE list[i]]

sort_spectra(list, ts) == Swap(list, sort_index(ts, Len(list)))

\* ------------------------------------------------------------- Motion.add_artifact
\* (mutant) the final boundary is not appended
boundary_indices_open(ts, last_index) ==
    [i \in 1..Len(ts) |-> (last_index * ts[i]) \div TimeGrid]

\* (mutant) the final boundary one short of the axis length
boundary_indices_short(ts, last_index) ==
    Append([i \in 1..Len(ts) |-> (last_index * ts[i]) \div TimeGrid], last_index - 1)

\* (last_index * times).astype(int).tolist(), then indices.append(last_index)
boundary_indices(ts, last_index) ==
    Append([i \in 1..Len(ts) |-> (last_index * ts[i]) \div TimeGrid], last_index)

\* zip(spectra, indices) with "ini = fin" after each: the slices (ini, fin)
Slices(list, indices) ==
    [i \in 1..Min2(Len(list), Len(indices)) |->
        << IF i = 1 THEN 0 ELSE indices[i - 1], indices[i] >>]

\* the indices slice(ini, fin) selects on an axis of the given length
SliceIndices(seg, length) ==
    {x \in 0..(length - 1) : seg[1] <= x /\ x < seg[2]}

\* result_spectrum[slices] = spectrum[slices] for every pair of the zip, on
\* torch.empty_like(spectra[0]): what each index along the axis was given
Composite(list, segs, length) ==
    [x \in 0..(length - 1) |->
        LET F[i \in 0..Len(segs)] ==
                IF i = 0 THEN << >>
                ELSE IF x \in SliceIndices(segs[i], length)
                     THEN Append(F[i - 1], list[i])
                     ELSE F[i - 1]
        IN F[Len(segs)]]

\* self.inv_fourier_transform(result_spectrum): a spectrum is named by the image
\* it is the transform of (0: the unresampled input); the inverse of a spectrum
\* that is spectrum k at every index of the axis is image k, of anything else an
\* image that is none of the poses (-1).
inv_fourier_transform(spectrum) ==
    IF \E k \in 0..MaxTransforms : \A x \in DOMAIN spectrum : spectrum[x] = << k >>
    THEN CHOOSE k \in 0..MaxTransforms : \A x \in DOMAIN spectrum : spectrum[x] = << k >>
    ELSE -1

TimesArgs == UNION {[1..n -> 0..(TimeGrid - 1)] : n \in 0..MaxTransforms}

SpectrumShapes == [Axes -> 1..MaxLength]

MotionIdle ==
    /\ motion_pc = "idle"
    /\ times = << >>
    /\ axis = 0
    /\ spectrum_shape = << 1, 1, 1 >>
    /\ spectra = << >>
    /\ segments = << >>
    /\ result_spectrum = << >>
    /\ result_image = 0

SamplerIdle ==
    /\ sampler = None
    /\ subject = << >>
    /\ heap = << >>
    /\ spatial_shape = << 1, 1, 1 >>
    /\ num_patches = [none |-> TRUE, n |-> 0]
    /\ pc = "idle"
    /\ err = "None"
    /\ probability_map = "None"
    /\ cdf = None
    /\ sort_indices = None
    /\ patches_left = [isTrue |-> FALSE, n |-> 0]
    /\ yielded = 0
    /\ patch = NoPatch
    /\ center = None
    /\ rng_draws = 0
    /\ map_read = FALSE

\* add_artifact is called with one time per simulated pose; the images, hence
\* the spectra, are the unresampled one (0) and one per pose (1..n).
InitMotion ==
    /\ motion_pc = "called"
    /\ times \in TimesArgs
    /\ axis \in 0..2
    /\ spectrum_shape \in SpectrumShapes
    /\ spectra = [i \in 1..(Len(times) + 1) |-> i - 1]
    /\ segments = << >>
    /\ result_spectrum = << >>
    /\ result_image = 0

add_artifact ==
    /\ motion_pc = "called"
    /\ motion_pc' = "returned"
    /\ \E sorted \in {sort_spectra(spectra, times)} :
       \E segs \in {Slices(sorted, boundary_indices(times, spectrum_shape[axis + 1]))} :
          /\ spectra' = sorted
          /\ segments' = segs
          /\ \E composite \in {Composite(sorted, segs, spectrum_shape[axis + 1])} :
                /\ result_spectrum' = composite
                /\ result_image' = inv_fourier_transform(composite)
    /\ UNCHANGED << times, axis, spectrum_shape >>
    /\ UNCHANGED notMotion

\* -------------------------------------------------------- RandomMotion.__init__
\* The values num_transforms is given: ints, floats (halves), a str, None.
NumTransformsArgs ==
    {[type |-> "int", twice |-> 2 * k] : k \in (-1)..MaxNumTransforms}
        \cup {[type |-> "float", twice |-> t] : t \in {1, 2, 3, 5}}
        \cup {[type |-> "str", twice |-> 0], [type |-> "NoneType", twice |-> 0]}

\* "if num_transforms < 1 or not isinstance(num_transforms, int)": the comparison
\* is evaluated first and raises TypeError on a value that has no order with 1
num_transforms_error(arg) ==
    IF arg.type \notin {"int", "float"} THEN "TypeError"
    ELSE IF arg.twice < 2 \/ arg.type # "int" THEN "ValueError"
    ELSE "None"

RandomMotionIdle ==
    /\ rm_pc = "idle"
    /\ rm_num_transforms = [type |-> "int", twice |-> 4]
    /\ rm_self = None
    /\ rm_err = "None"
    /\ rm_draws = 0
    /\ rm_times = << >>
    /\ rm_is_2d = FALSE
    /\ rm_generator = [k \in 0..(GeneratorBits - 1) |-> -1]
    /\ rm_degrees = << >>
    /\ rm_translation = << >>

InitRandomMotion ==
    /\ rm_pc = "new"
    /\ rm_num_transforms \in NumTransformsArgs
    /\ rm_self = None
    /\ rm_err = "None"
    /\ rm_draws = 0
    /\ rm_times = << >>
    /\ rm_is_2d = FALSE
    /\ rm_generator = [k \in 0..(GeneratorBits - 1) |-> -1]
    /\ rm_degrees = << >>
    /\ rm_translation = << >>

RandomMotion_init ==
    /\ rm_pc = "new"
    /\ \E e \in {num_transforms_error(rm_num_transforms)} :
          IF e # "None"
          THEN /\ rm_pc' = "raised"
               /\ rm_err' = e
               /\ UNCHANGED rm_self
          ELSE /\ rm_pc' = "constructed"
               /\ rm_self' = [num_transforms |-> rm_num_transforms.twice \div 2]
               /\ UNCHANGED rm_err
    /\ UNCHANGED << rm_num_transforms, rm_draws, rm_times >>
    /\ UNCHANGED << rm_is_2d, rm_generator, rm_degrees, rm_translation >>
    /\ UNCHANGED notRandomMotion

\* --------------------------------------------------------- RandomMotion.get_params
Pow2(n) ==
    LET p[i \in 0..n] == IF i = 0 THEN 1 ELSE 2 * p[i - 1]
    IN p[n]

\* num / den * 2^(-e) as a fraction of integers
Scaled(num, den, e) ==
    IF e >= 0 THEN [num |-> num, den |-> den * Pow2(e)]
    ELSE [num |-> num * Pow2(-e), den |-> den]

\* round half to even
RoundHalfEven(f) ==
    LET q == f.num \div f.den
        r == f.num % f.den
    IN IF 2 * r > f.den \/ (2 * r = f.den /\ q % 2 = 1) THEN q + 1 ELSE q

\* the exponent that puts num / den * 2^(-e) in [2^(Mantissa-1), 2^Mantissa)
Exponent(num, den) ==
    CHOOSE e \in (-(2 * Mantissa + 4))..(Mantissa + 4) :
        /\ Scaled(num, den, e).num >= Pow2(Mantissa - 1) * Scaled(num, den, e).den
        /\ Scaled(num, den, e).num < Pow2(Mantissa) * Scaled(num, den, e).den

\* the float nearest to num / den > 0: m * 2^e, m a significand of Mantissa bits
\* (a double has 53)
Float(num, den, e) == [m |-> RoundHalfEven(Scaled(num, den, e)), e |-> e]

fl(num, den) == Float(num, den, Exponent(num, den))

\* 1 / x for a float x
Reciprocal(x) ==
    IF x.e >= 0 THEN fl(1, x.m * Pow2(x.e)) ELSE fl(Pow2(-x.e), x.m)

\* std::ceil of a float
Ceil(x) ==
    IF x.e >= 0 THEN x.m * Pow2(x.e)
    ELSE (x.m + Pow2(-x.e) - 1) \div Pow2(-x.e)

\* len(torch.arange(0, 1, step)[1:]) for step = 1 / (num_transforms + 1): arange
\* has ceil((end - start) / step) elements, computed in floating point
arange_tail_length(num_transforms) ==
    Ceil(Reciprocal(fl(1, num_transforms + 1))) - 1

\* noise.uniform_(-step * perturbation, step * perturbation) with perturbation =
\* 0.3, in units of step / 10: the ends and the middle of the range
NoiseGrid == {-3, 0, 3}

\* noise as "times += noise" reads it: a single value is broadcast
broadcast(noise, length) ==
    [i \in 1..length |-> IF Len(noise) = 1 THEN noise[1] ELSE noise[i]]

\* times = torch.arange(0, 1, step)[1:]; times += noise
perturbed_times(length, noise) ==
    [i \in 1..length |-> 10 * i + broadcast(noise, length)[i]]

\* The states of the random generator: the draws that follow a state repeat
\* its GeneratorBits values, each the upper end of the range drawn from (1) or
\* the lower end (-1).
GeneratorStates == [0..(GeneratorBits - 1) -> {-1, 1}]

\* the k-th value (from 0) that uniform_ draws from generator state g
uniform_(g, k) == g[k % GeneratorBits]

\* torch.FloatTensor(num_transforms, 3).uniform_(*nums_range).numpy(), the
\* generator having given drawn values already
get_params_array(g, drawn, num_transforms) ==
    [i \in 1..num_transforms |->
        [j \in 1..3 |-> uniform_(g, drawn + 3 * (i - 1) + (j - 1))]]

\* (mutant) degrees_params[:, :1] = 0
rotate_around_z_first(degrees_params) ==
    [i \in DOMAIN degrees_params |->
        [j \in 1..3 |-> IF j <= 1 THEN 0 ELSE degrees_params[i][j]]]

\* degrees_params[:, :-1] = 0
rotate_around_z(degrees_params) ==
    [i \in DOMAIN degrees_params |->
        [j \in 1..3 |-> IF j <= 2 THEN 0 ELSE degrees_params[i][j]]]

\* translation_params[:, 2] = 0
translate_in_xy(translation_params) ==
    [i \in DOMAIN translation_params |->
        [j \in 1..3 |-> IF j = 3 THEN 0 ELSE translation_params[i][j]]]

\* axis, degrees_params, translation_params and noise are drawn, then
\* "times += noise" adds the noise, which needs as many times as noise values
\* unless the noise is a single value.
get_params ==
    /\ rm_pc = "constructed"
    /\ \E n \in {rm_self.num_transforms} :
       \E length \in {arange_tail_length(n)} :
       \E is_2d \in BOOLEAN :
       \E g \in GeneratorStates :
       \E degrees_params \in {get_params_array(g, 0, n)} :
       \E translation_params \in {get_params_array(g, 3 * n, n)} :
       \E noise \in [1..n -> NoiseGrid] :
          /\ rm_draws' = rm_draws + 1 + 3 * n + 3 * n + n
          /\ rm_is_2d' = is_2d
          /\ rm_generator' = g
          /\ IF length # n /\ n # 1
             THEN /\ rm_pc' = "raised"
                  /\ rm_err' = "RuntimeError"
                  /\ UNCHANGED << rm_times, rm_degrees, rm_translation >>
             ELSE /\ rm_pc' = "returned"
                  /\ rm_times' = perturbed_times(length, noise)
                  /\ rm_degrees' =
                        IF is_2d THEN rotate_around_z(degrees_params)
                        ELSE degrees_params
                  /\ rm_translation' =
                        IF is_2d THEN translate_in_xy(translation_params)
                        ELSE translation_params
                  /\ UNCHANGED rm_err
    /\ UNCHANGED << rm_num_transforms, rm_self >>
    /\ UNCHANGED notRandomMotion

\* ------------------------------------------------ IntensityTransform.arguments_are_dict
\* Motion.__init__: self.args_names
args_names == {"axis", "degrees", "translation", "times", "image_interpolation"}

\* (mutant) any(are_dict), and no error
arguments_are_dict_any(self) ==
    IF \E name \in args_names : self[name] = "dict" THEN "True" ELSE "False"

\* True, False, or the ValueError raised
arguments_are_dict(self) ==
    IF \A name \in args_names : self[name] = "dict" THEN "True"
    ELSE IF ~(\E name \in args_names : self[name] = "dict") THEN "False"
    ELSE "ValueError"

\* ------------------------------------------------------- Motion.apply_transform
\* the order the arguments are read in by image name
ArgOrder == << "axis", "degrees", "translation", "times", "image_interpolation" >>

\* What may be wrong with the contents of the arguments: an image name that is
\* not a key of one per-image dict, or an axis that is not an int or an
\* image_interpolation that is not a str (for one image when the argument is a
\* dict, as it is when it is not).
NoFault == [kind |-> "none", arg |-> "axis", image |-> 1]

Faults ==
    {NoFault}
        \cup {[kind |-> "missing", arg |-> name, image |-> i] :
                 name \in args_names, i \in 1..MaxImages}
        \cup {[kind |-> "type", arg |-> name, image |-> i] :
                 name \in {"axis", "image_interpolation"}, i \in 1..MaxImages}

ApplyIdle ==
    /\ ap_pc = "idle"
    /\ ap_self = [name \in args_names |-> "value"]
    /\ ap_images = 0
    /\ ap_answers = << >>
    /\ ap_lookups = << >>
    /\ ap_modified = 0
    /\ ap_err = "None"
    /\ ap_fault = NoFault

\* Motion.__init__ keeps each argument as it is given, a dict or not
InitApply ==
    /\ ap_pc = "built"
    /\ ap_self \in [args_names -> {"dict", "value"}]
    /\ ap_images \in 0..MaxImages
    /\ ap_answers = << >>
    /\ ap_lookups = << >>
    /\ ap_modified = 0
    /\ ap_err = "None"
    /\ ap_fault \in Faults

\* the arguments one turn of the loop reads by image name
lookups_of(answer) == IF answer = "True" THEN args_names ELSE {}

\* the arguments read by image name up to the one whose dict lacks the name
lookups_until(name) ==
    {ArgOrder[k] : k \in {l \in 1..Len(ArgOrder) :
                             \E m \in l..Len(ArgOrder) : ArgOrder[m] = name}}

\* the exception the turn of image i raises before its set_data, or "None":
\* self.<arg>[image_name] on a dict without the name, then the assertions on
\* axis and image_interpolation
turn_error(fault, answer, i) ==
    IF answer = "True" /\ fault.kind = "missing" /\ fault.image = i THEN "KeyError"
    ELSE IF fault.kind = "type" /\ (answer = "False" \/ fault.image = i)
    THEN "AssertionError"
    ELSE "None"

\* the loop over the images: arguments_are_dict is asked at each turn, and the
\* turn ends with image.set_data unless it raised
Motion_apply_transform ==
    /\ ap_pc = "built"
    /\ \E answer \in {arguments_are_dict(ap_self)} :
          IF ap_images = 0
          THEN /\ ap_pc' = "returned"
               /\ UNCHANGED << ap_answers, ap_lookups, ap_modified, ap_err >>
          ELSE IF answer = "ValueError"
          THEN /\ ap_pc' = "raised"
               /\ ap_err' = "ValueError"
               /\ UNCHANGED << ap_answers, ap_lookups, ap_modified >>
          ELSE IF \E i \in 1..ap_images : turn_error(ap_fault, answer, i) # "None"
          THEN \E i \in 1..ap_images :
                  /\ turn_error(ap_fault, answer, i) # "None"
                  /\ \A l \in 1..(i - 1) : turn_error(ap_fault, answer, l) = "None"
                  /\ ap_pc' = "raised"
                  /\ ap_err' = turn_error(ap_fault, answer, i)
                  /\ ap_answers' = [l \in 1..i |-> answer]
                  /\ ap_lookups' =
                        [l \in 1..i |->
                            IF l = i /\ turn_error(ap_fault, answer, i) = "KeyError"
                            THEN lookups_until(ap_fault.arg)
                            ELSE lookups_of(answer)]
                  /\ ap_modified' = i - 1
          ELSE /\ ap_pc' = "returned"
               /\ ap_answers' = [i \in 1..ap_images |-> answer]
               /\ ap_lookups' = [i \in 1..ap_images |-> lookups_of(answer)]
               /\ ap_modified' = ap_images
               /\ UNCHANGED ap_err
    /\ UNCHANGED << ap_self, ap_images, ap_fault >>
    /\ UNCHANGED notApply

\* ------------------------------------------------------------------- OneOf
\* The objects given as transforms: 1..MaxKeys are Transform instances, 0 is an
\* object that is not one.
Objects == 0..MaxKeys

\* transforms: a dict object -> weight, a sequence of objects (an object may
\* occur twice), or something without a length
TransformsArgs ==
    {[kind |-> "dict", dict |-> d, sequence |-> << >>] :
        d \in UNION {[keys -> (-1)..MaxWeight] : keys \in SUBSET Objects}}
    \cup {[kind |-> "sequence", dict |-> << >>, sequence |-> q] :
            q \in UNION {[1..n -> Objects] : n \in 0..(MaxKeys + 1)}}
    \cup {[kind |-> "other", dict |-> << >>, sequence |-> << >>]}

\* probabilities.sum() over the dict's values
WeightSum(d) ==
    LET t[k \in (-1)..MaxKeys] ==
            IF k = -1 THEN 0 ELSE t[k - 1] + (IF k \in DOMAIN d THEN d[k] ELSE 0)
    IN t[MaxKeys]

\* (mutant) each probability divided by the largest
normalize_probabilities_by_max(d) ==
    [k \in DOMAIN d |->
        [num |-> d[k], den |-> CHOOSE m \in {d[j] : j \in DOMAIN d} : \A j \in DOMAIN d : d[j] <= m]]

\* transforms_dict[transform] = probability / probabilities.sum()
normalize_probabilities(d) == [k \in DOMAIN d |-> [num |-> d[k], den |-> WeightSum(d)]]

\* OneOf._normalize_probabilities: the error it raises, if any
normalize_probabilities_error(d) ==
    IF \E k \in DOMAIN d : d[k] < 0 THEN "ValueError"
    ELSE IF \A k \in DOMAIN d : d[k] = 0 THEN "ValueError"
    ELSE "None"

\* {transform: p for transform in transforms} with p = 1 / len(transforms)
uniform_dict(q) ==
    [k \in {q[i] : i \in 1..Len(q)} |-> [num |-> 1, den |-> Len(q)]]

\* "for transform in transforms_dict: if not isinstance(transform, Transform)"
keys_checked(d) ==
    [dict |-> d, err |-> IF 0 \in DOMAIN d THEN "ValueError" ELSE "None"]

\* OneOf._get_transforms_dict: the dict returned, or the error raised
get_transforms_dict(transforms) ==
    IF transforms.kind = "dict"
    THEN IF normalize_probabilities_error(transforms.dict) # "None"
         THEN [dict |-> None, err |-> normalize_probabilities_error(transforms.dict)]
         ELSE keys_checked(normalize_probabilities(transforms.dict))
    ELSE IF transforms.kind = "other"
    THEN [dict |-> None, err |-> "ValueError"]
    ELSE IF Len(transforms.sequence) = 0
    THEN [dict |-> None, err |-> "ZeroDivisionError"]
    ELSE keys_checked(uniform_dict(transforms.sequence))

OneOfIdle ==
    /\ oo_pc = "idle"
    /\ oo_transforms = [kind |-> "other", dict |-> << >>, sequence |-> << >>]
    /\ oo_transforms_dict = None
    /\ oo_err = "None"

InitOneOf ==
    /\ oo_pc = "new"
    /\ oo_transforms \in TransformsArgs
    /\ oo_transforms_dict = None
    /\ oo_err = "None"

\* OneOf.__init__
OneOf_init ==
    /\ oo_pc = "new"
    /\ \E r \in {get_transforms_dict(oo_transforms)} :
          IF r.err # "None"
          THEN /\ oo_pc' = "raised"
               /\ oo_err' = r.err
               /\ UNCHANGED oo_transforms_dict
          ELSE /\ oo_pc' = "constructed"
               /\ oo_transforms_dict' = r.dict
               /\ UNCHANGED oo_err
    /\ UNCHANGED oo_transforms
    /\ UNCHANGED notOneOf

\* ------------------------------------------------- Motion.get_rigid_transforms
\* the values a voxel of the image takes
Intensities == {-1, 2}

\* the rows of degrees_params and of translation_params
PoseRows == {<< 1, 0, -1 >>, << 0, 2, 0 >>}

PoseArrays == UNION {[1..n -> PoseRows] : n \in 0..MaxTransforms}

\* sitk images of unit spacing and axis-aligned directions
SitkImages ==
    UNION {[origin : {0, 1}, size : {s}, data : [Voxels(s) -> Intensities]] : s \in Shapes}

\* image.TransformContinuousIndexToPhysicalPoint(np.array(image.GetSize()) / 2):
\* the physical point of the middle of the index range, in half voxels
center_lps(image) == [a \in Axes |-> 2 * image.origin + image.size[a]]

\* np.radians(degrees).tolist(): each angle as a fraction of pi
radians(degrees) == [a \in Axes |-> [pi_times |-> degrees[a], over |-> 180]]

\* sitk.Euler3DTransform(): no rotation, no translation, center at the origin
Euler3DTransform ==
    [center |-> [a \in Axes |-> 0],
     rotation |-> [a \in Axes |-> [pi_times |-> 0, over |-> 180]],
     translation |-> [a \in Axes |-> 0]]

\* zip(degrees_params, translation_params)
zip(xs, ys) == [i \in 1..Min2(Len(xs), Len(ys)) |-> << xs[i], ys[i] >>]

\* the identity centered on the image, then one Euler3DTransform per pair
rigid_transforms(degrees_params, translation_params, image) ==
    LET pairs == zip(degrees_params, translation_params)
        ident_transform == [Euler3DTransform EXCEPT !.center = center_lps(image)]
    IN << ident_transform >> \o
       [i \in 1..Len(pairs) |->
           [Euler3DTransform EXCEPT !.center = center_lps(image),
                                    !.rotation = radians(pairs[i][1]),
                                    !.translation = pairs[i][2]]]

\* ----------------------------------------------------- Motion.resample_images
\* ndarray.min()
ArrayMin(arr) == CHOOSE m \in {arr[p] : p \in DOMAIN arr} : \A q \in DOMAIN arr : m <= arr[q]

\* (mutant) the fill value sitk uses when none is set
default_value_zero(image) == 0

\* np.float64(sitk.GetArrayViewFromImage(image).min())
default_value(image) == ArrayMin(image.data)

\* resampler.Execute(floating): the image the filter's settings describe
resampled(floating, reference, transform, interpolator, default_pixel_value) ==
    [floating |-> floating, reference |-> reference, transform |-> transform,
     interpolator |-> interpolator, default_pixel_value |-> default_pixel_value,
     pixel_type |-> "sitkFloat32"]

\* images = [image], then one resampling per transform of transforms[1:]
resampled_images(image, transforms, interpolation) ==
    << image >> \o
    [i \in 1..(Len(transforms) - 1) |->
        resampled(image, image, transforms[i + 1], interpolation, default_value(image))]

RigidIdle ==
    /\ rt_pc = "idle"
    /\ rt_image = [origin |-> 0, size |-> << 1, 1, 1 >>, data |-> [v \in {0} |-> 2]]
    /\ rt_degrees_params = << >>
    /\ rt_translation_params = << >>
    /\ rt_transforms = << >>
    /\ rt_images = << >>

InitRigid ==
    /\ rt_pc = "called"
    /\ rt_image \in SitkImages
    /\ rt_degrees_params \in PoseArrays
    /\ rt_translation_params \in PoseArrays
    /\ rt_transforms = << >>
    /\ rt_images = << >>

Motion_get_rigid_transforms ==
    /\ rt_pc = "called"
    /\ rt_pc' = "transformed"
    /\ rt_transforms' = rigid_transforms(rt_degrees_params, rt_translation_params, rt_image)
    /\ UNCHANGED << rt_image, rt_degrees_params, rt_translation_params, rt_images >>
    /\ UNCHANGED notRigid

\* add_artifact hands resample_images the transforms get_rigid_transforms built
Motion_resample_images ==
    /\ rt_pc = "transformed"
    /\ rt_pc' = "resampled"
    /\ rt_images' = resampled_images(rt_image, rt_transforms, "linear")
    /\ UNCHANGED << rt_image, rt_degrees_params, rt_translation_params, rt_transforms >>
    /\ UNCHANGED notRigid

\* ------------------------------------------- transforms/random_motion.py
\* Rational numbers num / den, den > 0; the results of the arithmetic are in
\* lowest terms.
Q(n, d) == [num |-> n, den |-> d]

RECURSIVE Gcd(_, _)
Gcd(a, b) == IF b = 0 THEN a ELSE Gcd(b, a % b)

QNorm(x) ==
    LET g == Gcd(IF x.num < 0 THEN -x.num ELSE x.num, x.den)
    IN Q(x.num \div g, x.den \div g)

QAdd(x, y) == QNorm(Q(x.num * y.den + y.num * x.den, x.den * y.den))
QNeg(x) == Q(-x.num, x.den)
QScale(k, x) == QNorm(Q(k * x.num, x.den))
QOver(x, k) == QNorm(Q(x.num, x.den * k))
QAbs(x) == Q(IF x.num < 0 THEN -x.num ELSE x.num, x.den)
QEq(x, y) == x.num * y.den = y.num * x.den
QLess(x, y) == x.num * y.den < y.num * x.den
QLeq(x, y) == x.num * y.den <= y.num * x.den

\* The 4x4 matrices of the model are those of the translations along the first
\* axis: T(t) is np.eye(4) with t at [0, 3], and N(s) is zero but for s at
\* [0, 3] (T(t) = I + N(t), N(s) @ N(s') = 0).
T(t) == [kind |-> "T", at03 |-> t]
N(s) == [kind |-> "N", at03 |-> s]

\* np.eye(4)
eye == T(Q(0, 1))

\* A @ B for translations
matmul(A, B) == T(QAdd(A.at03, B.at03))

\* np.linalg.inv(A) for a translation
inv(A) == T(QNeg(A.at03))

\* np.linalg.matrix_power(A, p) for a translation, p >= 0
matrix_power(A, p) == T(QScale(p, A.at03))

\* np.linalg.norm (Frobenius) of N(s)
norm(A) == QAbs(A.at03)

SameMatrix(A, B) == A.kind = B.kind /\ QEq(A.at03, B.at03)

\* matrix_sqrt(T(t)): the first round of the iteration gives X = (T(t) + I) / 2 =
\* T(t / 2) and Y = (I + T(-t)) / 2, and X @ X - A is zero: the loop ends
matrix_sqrt(A) == T(QOver(A.at03, 2))

\* the number of rounds of "while diff > 0.5" in matrix_log (at least one): the
\* least k >= 1 with norm(A ** (1 / 2 ** k) - I) <= 0.5
sqrt_rounds(A) ==
    CHOOSE k \in 1..(MaxShift + 2) :
        /\ QLeq(QAbs(QOver(A.at03, Pow2(k))), Q(1, 2))
        /\ \A l \in 1..(k - 1) : ~QLeq(QAbs(QOver(A.at03, Pow2(l))), Q(1, 2))

\* matrix_log(T(t)): after k square roots A = I - A is N(-t / 2 ** k); Z @ A is
\* zero, so the series is its first term X = A, and 2 ** k * X is returned
matrix_log(A) ==
    LET k == sqrt_rounds(A)
    IN N(QScale(Pow2(k), QNeg(QOver(A.at03, Pow2(k)))))

\* np.floor(np.log2(x)) for x >= 1
floor_log2(x) ==
    CHOOSE e \in 0..(MaxShift + 2) :
        QLeq(Q(Pow2(e), 1), x) /\ QLess(x, Q(Pow2(e + 1), 1))

\* j = int(max(0, 1 + np.floor(log))) if norm_a > 0 else 0
scaling(A) ==
    IF QLess(norm(A), Q(1, 1)) THEN 0 ELSE 1 + floor_log2(norm(A))

\* np.linalg.inv(D) @ N for the scaled N(s): X @ X and the higher powers are
\* zero, c = 1/2 at k = 1, so N = I + N(s / 2) and D = I - N(s / 2), and
\* inv(D) @ N = T(s / 2) @ T(s / 2)
approximant(A) == matmul(T(QOver(A.at03, 2)), T(QOver(A.at03, 2)))

\* matrix_exp(A): A = 2 ** (-j) * A, the approximant, then
\* np.linalg.matrix_power(X, 2 * j)
matrix_exp(A) ==
    LET j == scaling(A)
        X == approximant(N(QOver(A.at03, Pow2(j))))
    IN [j |-> j, approximant |-> X, X |-> matrix_power(X, 2 * j)]

\* logs.sum(axis=0) of w * matrix_log(A), the weights all 1 / num_matrices
logs_sum(matrices) ==
    LET s[i \in 0..Len(matrices)] ==
            IF i = 0 THEN Q(0, 1)
            ELSE QAdd(s[i - 1], QOver(matrix_log(matrices[i]).at03, Len(matrices)))
    IN N(s[Len(matrices)])

matrix_average(matrices) == matrix_exp(logs_sum(matrices)).X

\* demeaned_matrices = [inverse_mean @ matrix for matrix in matrices]
demean_transforms(matrices) ==
    LET inverse_mean == inv(matrix_average(matrices))
    IN [i \in 1..Len(matrices) |-> matmul(inverse_mean, matrices[i])]

\* result[..., idx_ini:idx_fin] = spectrum[..., idx_ini:idx_fin] for every
\* spectrum, on np.empty_like(spectra[0]): what each index of the last axis was
\* given (nothing: the index keeps what the allocation left there)
chunks_written(length, num_images) ==
    LET chunk_size == length \div num_images
    IN [x \in 0..(length - 1) |->
           LET F[i \in 0..num_images] ==
                   IF i = 0 THEN << >>
                   ELSE IF (i - 1) * chunk_size <= x /\ x < i * chunk_size
                        THEN Append(F[i - 1], i - 1)
                        ELSE F[i - 1]
           IN F[num_images]]

\* the entries at [0, 3] of the matrices given: halves and quarters
Entries == {Q(n, d) : n \in (-MaxShift)..MaxShift, d \in {1, 2, 4}}

\* trajectories of translations by whole numbers
Trajectories ==
    UNION {[1..n -> {T(Q(t, 1)) : t \in (-MaxShift)..MaxShift}] : n \in 1..(MaxTransforms + 1)}

LegacyIdle ==
    /\ lg_pc = "idle"
    /\ lg_A = N(Q(0, 1))
    /\ lg_exp = None
    /\ lg_transforms = << >>
    /\ lg_demeaned = << >>
    /\ lg_length = 1
    /\ lg_num_images = 1
    /\ lg_result = << >>

\* one of the three methods is called on its arguments
InitLegacy ==
    /\ lg_pc \in {"matrix_exp", "demean_transforms", "add_artifact"}
    /\ lg_exp = None
    /\ lg_demeaned = << >>
    /\ lg_result = << >>
    /\ IF lg_pc = "matrix_exp" THEN lg_A \in {N(s) : s \in Entries}
       ELSE lg_A = N(Q(0, 1))
    /\ IF lg_pc = "demean_transforms" THEN lg_transforms \in Trajectories
       ELSE lg_transforms = << >>
    /\ IF lg_pc = "add_artifact"
       THEN lg_length \in 1..MaxLength /\ lg_num_images \in 1..(MaxTransforms + 1)
       ELSE lg_length = 1 /\ lg_num_images = 1

Legacy_matrix_exp ==
    /\ lg_pc = "matrix_exp"
    /\ lg_pc' = "matrix_exp returned"
    /\ lg_exp' = matrix_exp(lg_A)
    /\ UNCHANGED << lg_A, lg_transforms, lg_demeaned, lg_length, lg_num_images, lg_result >>
    /\ UNCHANGED notLegacy

Legacy_demean_transforms ==
    /\ lg_pc = "demean_transforms"
    /\ lg_pc' = "demean_transforms returned"
    /\ lg_demeaned' = demean_transforms(lg_transforms)
    /\ UNCHANGED << lg_A, lg_exp, lg_transforms, lg_length, lg_num_images, lg_result >>
    /\ UNCHANGED notLegacy

Legacy_add_artifact ==
    /\ lg_pc = "add_artifact"
    /\ lg_pc' = "add_artifact returned"
    /\ lg_result' = chunks_written(lg_length, lg_num_images)
    /\ UNCHANGED << lg_A, lg_exp, lg_transforms, lg_demeaned, lg_length, lg_num_images >>
    /\ UNCHANGED notLegacy

\* ------------------------------------- two lazy sequences of one WeightedSampler
Generators == {1, 2}

\* the subjects of the two calls: maps over two voxels, none negative
PairShape == << 1, 1, 2 >>
PairPatchSize == << 1, 1, 1 >>
PairMaps == [Voxels(PairShape) -> 0..MaxVal]

NoFrame == [probability_map |-> None, cdf |-> None, sort_indices |-> None]

PairIdle ==
    /\ tw_sampler = None
    /\ tw_subjects = << >>
    /\ tw_pc = << >>
    /\ tw_frames = << >>
    /\ tw_centers = << >>
    /\ tw_pulls = << >>

\* sampler(subject_1) and sampler(subject_2): two generators, nothing run yet
InitPair ==
    /\ tw_sampler = NewSampler(PairPatchSize, MapName)
    /\ tw_subjects \in [Generators -> PairMaps]
    /\ tw_pc = [g \in Generators |-> "created"]
    /\ tw_frames = [g \in Generators |-> NoFrame]
    /\ tw_centers = [g \in Generators |-> << >>]
    /\ tw_pulls = << >>

\* the while loop of sequence g up to its yield, on the locals given
PairTurn(g, frame) ==
    \E u \in Draws :
    \E s \in {sample_probability_map(frame.probability_map, frame.cdf,
                                     frame.sort_indices, u)} :
       /\ tw_frames' = [tw_frames EXCEPT ![g] = frame]
       /\ tw_pulls' = Append(tw_pulls, g)
       /\ IF s.err # "None"
          THEN /\ tw_pc' = [tw_pc EXCEPT ![g] = "raised"]
               /\ UNCHANGED tw_centers
          ELSE /\ tw_pc' = [tw_pc EXCEPT ![g] = "suspended"]
               /\ tw_centers' = [tw_centers EXCEPT ![g] = Append(@, s.location)]
       /\ UNCHANGED << tw_sampler, tw_subjects >>

\* the first next() on one of the sequences: the body of __call__ up to the
\* first yield, the map, cdf and sort_indices kept in the locals of that call
Pair_first_next ==
    /\ \E g \in Generators :
          /\ tw_pc[g] = "created"
          /\ \E p \in {process_probability_map([b \in {MapName} |-> tw_subjects[g]],
                                               MapName, PairShape,
                                               tw_sampler.patch_size)} :
                IF p.err # "None"
                THEN /\ tw_pc' = [tw_pc EXCEPT ![g] = "raised"]
                     /\ tw_pulls' = Append(tw_pulls, g)
                     /\ UNCHANGED << tw_sampler, tw_subjects, tw_frames, tw_centers >>
                ELSE \E d \in {get_cumulative_distribution_function(p.heap[p.ref])} :
                        PairTurn(g, [probability_map |-> p.heap[p.ref], cdf |-> d.cdf,
                                     sort_indices |-> d.sort_indices])
    /\ UNCHANGED notPair

\* a later next() on one of the sequences (num_patches is None)
Pair_next ==
    /\ \E g \in Generators :
          /\ tw_pc[g] = "suspended"
          /\ Len(tw_centers[g]) < MaxPulls
          /\ PairTurn(g, tw_frames[g])
    /\ UNCHANGED notPair

\* ------------------------------------------------------------------ Compose
\* the transforms a Compose is made of: instances of Transform, each invertible
\* or not
Members == [id : 1..MaxKeys, invertible : BOOLEAN]

\* a Compose was constructed: its list is not empty and all of it is callable
MemberLists == UNION {[1..n -> Members] : n \in 1..(MaxTransforms + 1)}

\* transform.inverse() of an invertible member
inverse_of(transform) == [inverse_of |-> transform.id]

\* the list inverse() builds in its loop: the inverses of the invertible members,
\* in the members' order
inverses(list) ==
    LET F[i \in 0..Len(list)] ==
            IF i = 0 THEN << >>
            ELSE IF list[i].invertible THEN Append(F[i - 1], inverse_of(list[i]))
            ELSE F[i - 1]
    IN F[Len(list)]

\* the members skipped with a warning, in the members' order
skipped(list) ==
    LET F[i \in 0..Len(list)] ==
            IF i = 0 THEN << >>
            ELSE IF list[i].invertible THEN F[i - 1]
            ELSE Append(F[i - 1], list[i].id)
    IN F[Len(list)]

\* list.reverse()
reverse(list) == [i \in 1..Len(list) |-> list[Len(list) + 1 - i]]

\* Compose.__init__: the exception it raises on its transforms, or "None" (the
\* inverses are Transform instances, hence callable)
Compose_init_error(list) == IF Len(list) = 0 THEN "ValueError" ELSE "None"

ComposeIdle ==
    /\ co_pc = "idle"
    /\ co_transforms = << >>
    /\ co_inverse = << >>
    /\ co_warnings = << >>
    /\ co_err = "None"

InitCompose ==
    /\ co_pc = "constructed"
    /\ co_transforms \in MemberLists
    /\ co_inverse = << >>
    /\ co_warnings = << >>
    /\ co_err = "None"

\* Compose.inverse(): the loop, the reversal, then Compose(transforms)
Compose_inverse ==
    /\ co_pc = "constructed"
    /\ co_warnings' = skipped(co_transforms)
    /\ \E list \in {reverse(inverses(co_transforms))} :
          IF Compose_init_error(list) # "None"
          THEN /\ co_pc' = "raised"
               /\ co_err' = Compose_init_error(list)
               /\ UNCHANGED co_inverse
          ELSE /\ co_pc' = "returned"
               /\ co_inverse' = list
               /\ UNCHANGED co_err
    /\ UNCHANGED co_transforms
    /\ UNCHANGED notCompose

\* ---------------------------------------------------------- CenterCropOrPad
\* BoundsTransform.__init__(size): three sizes are kept as six numbers, each
\* size twice
parse_bounds(size) == [k \in 1..6 |-> size[(k + 1) \div 2]]

\* np.array(self.bounds_parameters[::2])
target_shape_of(bounds_parameters) == [a \in Axes |-> bounds_parameters[2 * a - 1]]

\* -np.minimum(diff_shape, 0)
cropping_of(diff_shape) == [a \in Axes |-> -Min2(diff_shape[a], 0)]

\* np.maximum(diff_shape, 0)
padding_of(diff_shape) == [a \in Axes |-> Max2(diff_shape[a], 0)]

\* ndarray.any()
any(arr) == \E a \in DOMAIN arr : arr[a] # 0

\* np.ceil(n) and np.floor(n) of n = parameter / 2, for a parameter >= 0
ceil_half(parameter) == (parameter + 1) \div 2
floor_half(parameter) == parameter \div 2

\* (mutant) both ends rounded down
get_six_bounds_parameters_floor(parameters) ==
    [k \in 1..6 |-> floor_half(parameters[(k + 1) \div 2])]

\* result.extend([ini, fin]) for every n of parameters / 2
get_six_bounds_parameters(parameters) ==
    [k \in 1..6 |->
        IF k % 2 = 1 THEN ceil_half(parameters[(k + 1) \div 2])
        ELSE floor_half(parameters[(k + 1) \div 2])]

\* Crop(bounds_parameters)(sample): ini voxels taken off the start of each axis
\* and fin off its end
Crop(bounds_parameters, shape) ==
    [a \in Axes |-> shape[a] - bounds_parameters[2 * a - 1] - bounds_parameters[2 * a]]

\* Pad(bounds_parameters)(sample): ini voxels added before each axis and fin after
Pad(bounds_parameters, shape) ==
    [a \in Axes |-> shape[a] + bounds_parameters[2 * a - 1] + bounds_parameters[2 * a]]

CropOrPadIdle ==
    /\ cp_pc = "idle"
    /\ cp_bounds_parameters = << >>
    /\ cp_source_shape = << 1, 1, 1 >>
    /\ cp_cropping_params = None
    /\ cp_padding_params = None
    /\ cp_shape = << 1, 1, 1 >>

\* CenterCropOrPad(size) built, and a sample of some shape
InitCropOrPad ==
    /\ cp_pc = "built"
    /\ \E size \in [Axes -> 1..MaxLength] : cp_bounds_parameters = parse_bounds(size)
    /\ cp_source_shape \in [Axes -> 1..MaxLength]
    /\ cp_cropping_params = None
    /\ cp_padding_params = None
    /\ cp_shape = cp_source_shape

CenterCropOrPad_apply_transform ==
    /\ cp_pc = "built"
    /\ cp_pc' = "returned"
    /\ \E target_shape \in {target_shape_of(cp_bounds_parameters)} :
       \E diff_shape \in {[a \in Axes |-> target_shape[a] - cp_source_shape[a]]} :
       \E cropping \in {cropping_of(diff_shape)} :
       \E padding \in {padding_of(diff_shape)} :
       \E cropped \in {IF any(cropping)
                       THEN Crop(get_six_bounds_parameters(cropping), cp_source_shape)
                       ELSE cp_source_shape} :
          /\ cp_cropping_params' =
                IF any(cropping) THEN get_six_bounds_parameters(cropping) ELSE None
          /\ cp_padding_params' =
                IF any(padding) THEN get_six_bounds_parameters(padding) ELSE None
          /\ cp_shape' = IF any(padding)
                         THEN Pad(get_six_bounds_parameters(padding), cropped)
                         ELSE cropped
    /\ UNCHANGED << cp_bounds_parameters, cp_source_shape >>
    /\ UNCHANGED notCropOrPad

\* ------------------------------------------------------------ specifications
\* A sampler invoked on a subject, the lazy sequence pulled by its caller.
Init == InitSampler /\ MotionIdle /\ RandomMotionIdle /\ ApplyIdle /\ OneOfIdle
    /\ RigidIdle /\ LegacyIdle /\ PairIdle /\ ComposeIdle /\ CropOrPadIdle

Next ==
    \/ Start
    \/ Resume

Spec == Init /\ [][Next]_vars

\* add_artifact applied to its arguments.
MotionInit == InitMotion /\ SamplerIdle /\ RandomMotionIdle /\ ApplyIdle /\ OneOfIdle
    /\ RigidIdle /\ LegacyIdle /\ PairIdle /\ ComposeIdle /\ CropOrPadIdle

MotionNext == add_artifact

SpecMotion == MotionInit /\ [][MotionNext]_vars

\* A RandomMotion constructed, then asked for the parameters of one image.
RandomMotionInit == InitRandomMotion /\ SamplerIdle /\ MotionIdle /\ ApplyIdle /\ OneOfIdle
    /\ RigidIdle /\ LegacyIdle /\ PairIdle /\ ComposeIdle /\ CropOrPadIdle

RandomMotionNext ==
    \/ RandomMotion_init
    \/ get_params

SpecRandomMotion == RandomMotionInit /\ [][RandomMotionNext]_vars

\* A Motion transform applied to a subject.
ApplyInit == InitApply /\ SamplerIdle /\ MotionIdle /\ RandomMotionIdle /\ OneOfIdle
    /\ RigidIdle /\ LegacyIdle /\ PairIdle /\ ComposeIdle /\ CropOrPadIdle

ApplyNext == Motion_apply_transform

SpecApply == ApplyInit /\ [][ApplyNext]_vars

\* A OneOf constructed from its transforms argument.
OneOfInit ==
    InitOneOf /\ SamplerIdle /\ MotionIdle /\ RandomMotionIdle /\ ApplyIdle /\ RigidIdle
    /\ LegacyIdle /\ PairIdle /\ ComposeIdle /\ CropOrPadIdle

OneOfNext == OneOf_init

SpecOneOf == OneOfInit /\ [][OneOfNext]_vars

\* The poses of one image made into transforms, the image resampled under them.
RigidInit ==
    InitRigid /\ SamplerIdle /\ MotionIdle /\ RandomMotionIdle /\ ApplyIdle /\ OneOfIdle
    /\ LegacyIdle /\ PairIdle /\ ComposeIdle /\ CropOrPadIdle

RigidNext ==
    \/ Motion_get_rigid_transforms
    \/ Motion_resample_images

SpecRigid == RigidInit /\ [][RigidNext]_vars

\* The earlier RandomMotion: one of its methods applied to its arguments.
LegacyInit ==
    InitLegacy /\ SamplerIdle /\ MotionIdle /\ RandomMotionIdle /\ ApplyIdle /\ OneOfIdle
    /\ RigidIdle /\ PairIdle /\ ComposeIdle /\ CropOrPadIdle

LegacyNext ==
    \/ Legacy_matrix_exp
    \/ Legacy_demean_transforms
    \/ Legacy_add_artifact

SpecLegacy == LegacyInit /\ [][LegacyNext]_vars

\* One sampler called on two subjects, the two sequences pulled in any order.
PairInit ==
    InitPair /\ SamplerIdle /\ MotionIdle /\ RandomMotionIdle /\ ApplyIdle /\ OneOfIdle
    /\ RigidIdle /\ LegacyIdle /\ ComposeIdle /\ CropOrPadIdle

PairNext ==
    \/ Pair_first_next
    \/ Pair_next

SpecPair == PairInit /\ [][PairNext]_vars

\* A Compose asked for its inverse.
ComposeInit ==
    InitCompose /\ SamplerIdle /\ MotionIdle /\ RandomMotionIdle /\ ApplyIdle /\ OneOfIdle
    /\ RigidIdle /\ LegacyIdle /\ PairIdle /\ CropOrPadIdle

ComposeNext == Compose_inverse

SpecCompose == ComposeInit /\ [][ComposeNext]_vars

\* A CenterCropOrPad applied to a sample.
CropOrPadInit ==
    InitCropOrPad /\ SamplerIdle /\ MotionIdle /\ RandomMotionIdle /\ ApplyIdle /\ OneOfIdle
    /\ RigidIdle /\ LegacyIdle /\ PairIdle /\ ComposeIdle

CropOrPadNext == CenterCropOrPad_apply_transform

SpecCropOrPad == CropOrPadInit /\ [][CropOrPadNext]_vars

\* ------------------------------------------------------------------ claims
Fits == \A a \in Axes : sampler.patch_size[a] <= spatial_shape[a]
HasMap == sampler.probability_map_name \in DOMAIN subject
RawMap == heap[subject[sampler.probability_map_name]]
HasNegative == \E f \in DOMAIN RawMap : RawMap[f] < 0
SetUp == probability_map # "None"
ProcessedMap == heap[probability_map]

\* the patch centered on c lies inside the volume
ValidCenter(c) ==
    \A a \in Axes :
        /\ c[a] - sampler.patch_size[a] \div 2 >= 0
        /\ c[a] - sampler.patch_size[a] \div 2 + sampler.patch_size[a] <= spatial_shape[a]

\* the voxel each draw of the grid selects
Chosen == [u \in Draws |-> sort_indices[cdf_index(u, cdf)]]

\* every voxel is selected by as many draws as `normalized` gives it
HitsEqual(chosen, normalized) ==
    \A v \in Voxels(spatial_shape) :
        Cardinality({u \in Draws : chosen[u] = v}) = normalized[v]

\* C1: the index_ini of every yielded patch is center - patch_size // 2, is not
\* negative, and leaves the whole patch inside the spatial shape, on every axis.
C1_PatchInBounds ==
    yielded > 0 =>
        \A a \in Axes :
            /\ patch.index_ini[a] = center[a] - sampler.patch_size[a] \div 2
            /\ 0 <= patch.index_ini[a]
            /\ patch.index_ini[a] + sampler.patch_size[a] <= spatial_shape[a]

C1_Witness ==
    /\ yielded > 0
    /\ \E a \in Axes :
          /\ sampler.patch_size[a] = 2
          /\ spatial_shape[a] = 3
          /\ patch.index_ini[a] = 1

\* C2: a voxel whose processed probability is 0 is never the center: the center
\* of every yielded patch has a positive probability, and the assertion
\* "probability > 0" of sample_probability_map never fails, whatever the draw.
C2_ZeroNeverCenter ==
    /\ yielded > 0 => ProcessedMap[Ravel(center, spatial_shape)] > 0
    /\ rng_draws > 0 => err # "AssertionError"

\* C3: every draw selects the smallest position of the cumulative sums whose
\* value exceeds it, and every voxel is selected by as many draws of the grid as
\* its normalized map value.
C3_HitsEqualNormalized ==
    SetUp =>
        /\ \A u \in Draws :
              /\ cdf[cdf_index(u, cdf)] > u
              /\ \A q \in DOMAIN cdf : cdf[q] > u => cdf_index(u, cdf) <= q
        /\ HitsEqual(Chosen, flat_map_normalized(ProcessedMap))

\* C4: on a subject the sampler accepts, num_patches = n >= 0 gives exactly n
\* patches and then the end of the sequence, and num_patches = None gives a
\* sequence that never ends and never fails.
C4_ExactlyNumPatches ==
    (HasMap /\ Fits /\ ~HasNegative) =>
        /\ (~num_patches.none /\ num_patches.n >= 0) =>
              /\ pc # "raised"
              /\ yielded <= num_patches.n
              /\ pc = "done" => yielded = num_patches.n
        /\ num_patches.none => pc \notin {"raised", "done"}

\* C5: a patch size larger than the spatial shape on some axis, and only that,
\* ends the first pull in a RuntimeError, with the probability map not read, no
\* random number drawn and no patch yielded.
C5_PatchTooLargeFailsFirst ==
    pc # "created" =>
        /\ (\E a \in Axes : sampler.patch_size[a] > spatial_shape[a]) <=> err = "RuntimeError"
        /\ err = "RuntimeError" =>
              /\ pc = "raised"
              /\ ~map_read
              /\ rng_draws = 0
              /\ yielded = 0

C5_Witness ==
    /\ err = "RuntimeError"
    /\ HasMap
    /\ \E a \in Axes : sampler.patch_size[a] = spatial_shape[a]

C7_ZeroMassMadeUniform ==
    (pc # "created" /\ HasMap /\ Fits /\ ~HasNegative
        /\ ArraySum(clear_probability_borders(RawMap, spatial_shape, sampler.patch_size)) = 0) =>
        /\ SetUp
        /\ \A v, w \in Voxels(spatial_shape) :
              (ValidCenter(Unravel(v, spatial_shape)) /\ ValidCenter(Unravel(w, spatial_shape)))
                  => (ProcessedMap[v] > 0 /\ ProcessedMap[v] = ProcessedMap[w])

\* C8: for an all-zero map and a patch size that fits, the processed map has one
\* positive value on every valid center and zero on every other voxel.
C8_AllZeroMadeUniform ==
    (pc # "created" /\ HasMap /\ Fits /\ \A f \in DOMAIN RawMap : RawMap[f] = 0) =>
        /\ SetUp
        /\ \A v \in Voxels(spatial_shape) :
              IF ValidCenter(Unravel(v, spatial_shape))
              THEN /\ ProcessedMap[v] > 0
                   /\ \A w \in Voxels(spatial_shape) :
                         ValidCenter(Unravel(w, spatial_shape)) => ProcessedMap[w] = ProcessedMap[v]
              ELSE ProcessedMap[v] = 0

C8_Witness ==
    /\ SetUp
    /\ \A f \in DOMAIN RawMap : RawMap[f] = 0
    /\ \E v, w, x \in Voxels(spatial_shape) :
          /\ v # w
          /\ ValidCenter(Unravel(v, spatial_shape))
          /\ ValidCenter(Unravel(w, spatial_shape))
          /\ ~ValidCenter(Unravel(x, spatial_shape))

\* C9: no pull changes the subject: its images, their data and the spatial shape
\* are after the step what they were before it.
C9_SubjectUntouched ==
    [][/\ subject' = subject
       /\ spatial_shape' = spatial_shape
       /\ \A name \in DOMAIN subject : heap'[subject[name]] = heap[subject[name]]]_vars

C9_Witness ==
    /\ yielded >= 2
    /\ ProcessedMap # RawMap
    /\ \E a \in Axes : patch.index_ini[a] > 0

NonDecreasing(ts) == \A i, j \in 1..Len(ts) : i <= j => ts[i] <= ts[j]
AxisLength == spectrum_shape[axis + 1]

\* C10: for non-decreasing times the slices of add_artifact end at
\* floor(times * axis_length) and then at axis_length, each starts where the one
\* before ended, the first at 0, and every index of the axis is written once.
C10_SegmentsPartitionAxis ==
    (motion_pc = "returned" /\ NonDecreasing(times)) =>
        /\ Len(segments) = Len(times) + 1
        /\ segments[1][1] = 0
        /\ segments[Len(segments)][2] = AxisLength
        /\ \A i \in 1..Len(times) :
              /\ segments[i][2] = (AxisLength * times[i]) \div TimeGrid
              /\ segments[i + 1][1] = segments[i][2]
        /\ \A i \in 1..Len(segments) : segments[i][1] <= segments[i][2]
        /\ \A x \in 0..(AxisLength - 1) :
              /\ Cardinality({i \in 1..Len(segments) :
                                 segments[i][1] <= x /\ x < segments[i][2]}) = 1
              /\ Len(result_spectrum[x]) = 1

C10_Witness ==
    /\ motion_pc = "returned"
    /\ Len(times) = 2
    /\ times[1] < times[2]
    /\ \A i \in 1..Len(segments) : segments[i][1] < segments[i][2]
    /\ \A x \in 0..(AxisLength - 1) : Len(result_spectrum[x]) = 1

\* C11: with no pose besides the identity (empty times) the single spectrum, that
\* of the unresampled input, is written at every index of the axis in one slice,
\* and the image returned is the input, on the same axis length.
C11_EmptyPosesReturnInput ==
    (motion_pc = "returned" /\ Len(times) = 0) =>
        /\ spectra = << 0 >>
        /\ segments = << << 0, AxisLength >> >>
        /\ DOMAIN result_spectrum = 0..(AxisLength - 1)
        /\ \A x \in 0..(AxisLength - 1) : result_spectrum[x] = << 0 >>
        /\ result_image = 0

C11_Witness ==
    /\ motion_pc = "returned"
    /\ Len(times) = 0
    /\ AxisLength >= 2
    /\ result_image = 0

\* C12: a num_transforms that is less than 1 or is not an int makes the
\* construction of RandomMotion fail with a ValueError, no object built and no
\* random number drawn.
C12_InvalidNumTransformsValueError ==
    (rm_pc \notin {"idle", "new"}
        /\ (rm_num_transforms.type # "int" \/ rm_num_transforms.twice < 2)) =>
        /\ rm_pc = "raised"
        /\ rm_err = "ValueError"
        /\ rm_self = None
        /\ rm_draws = 0

\* get_params was called and has ended
ParamsAsked == rm_self # None /\ rm_pc \in {"returned", "raised"}

\* C20: get_params returns num_transforms times, the i-th within 0.3 * step of
\* i * step, strictly increasing and strictly between 0 and 1, for every
\* num_transforms >= 1 and every noise.
C20_TimesInSlots ==
    ParamsAsked =>
        /\ rm_pc = "returned"
        /\ Len(rm_times) = rm_self.num_transforms
        /\ \A i \in 1..Len(rm_times) :
              /\ rm_times[i] >= 10 * i - 3
              /\ rm_times[i] <= 10 * i + 3
              /\ 0 < rm_times[i]
              /\ rm_times[i] < 10 * (rm_self.num_transforms + 1)
        /\ \A i, j \in 1..Len(rm_times) : i < j => rm_times[i] < rm_times[j]

AllDict == \A name \in args_names : ap_self[name] = "dict"
NoneDict == \A name \in args_names : ap_self[name] # "dict"

\* C13: arguments_are_dict answers True when all five arguments are dicts and
\* False when none is, and raises ValueError otherwise, before any image is
\* changed; so every image of one apply reads either all five arguments by its
\* name or none of them.
C13_AllOrNoneDict ==
    (ap_pc \in {"returned", "raised"} /\ ap_images > 0) =>
        /\ AllDict => /\ ap_err # "ValueError"
                      /\ Len(ap_answers) >= 1
                      /\ \A i \in 1..Len(ap_answers) : ap_answers[i] = "True"
        /\ NoneDict => /\ ap_err # "ValueError"
                       /\ Len(ap_answers) >= 1
                       /\ \A i \in 1..Len(ap_answers) : ap_answers[i] = "False"
        /\ (~AllDict /\ ~NoneDict) =>
              (ap_pc = "raised" /\ ap_err = "ValueError" /\ ap_modified = 0)
        /\ \A i \in 1..ap_modified :
              /\ ap_lookups[i] \in {{}, args_names}
              /\ ap_lookups[i] = {name \in args_names : ap_self[name] = "dict"}

C13_Witness ==
    /\ ap_pc = "returned"
    /\ ap_images = 2
    /\ AllDict
    /\ ap_lookups = << args_names, args_names >>

\* the probabilities of self.transforms_dict add up to one
SumsToOne ==
    \E den \in 1..((MaxKeys + 1) * (MaxWeight + 1)) :
        /\ \A k \in DOMAIN oo_transforms_dict : oo_transforms_dict[k].den = den
        /\ WeightSum([k \in DOMAIN oo_transforms_dict |-> oo_transforms_dict[k].num]) = den

NonNegative ==
    \A k \in DOMAIN oo_transforms_dict :
        oo_transforms_dict[k].num >= 0 /\ oo_transforms_dict[k].den > 0

\* a dict with a negative weight, or with no positive weight, is refused
BadWeightsRefused ==
    (oo_pc \notin {"idle", "new"} /\ oo_transforms.kind = "dict"
        /\ (\/ \E k \in DOMAIN oo_transforms.dict : oo_transforms.dict[k] < 0
            \/ \A k \in DOMAIN oo_transforms.dict : oo_transforms.dict[k] = 0)) =>
        (oo_pc = "raised" /\ oo_err = "ValueError")

\* each value of a dict is divided by the total, each transform of a sequence
\* of n gets 1 / n
WeightsAsGiven ==
    oo_pc = "constructed" =>
        /\ oo_transforms.kind = "dict" =>
              /\ DOMAIN oo_transforms_dict = DOMAIN oo_transforms.dict
              /\ \A k \in DOMAIN oo_transforms_dict :
                    oo_transforms_dict[k] =
                        [num |-> oo_transforms.dict[k], den |-> WeightSum(oo_transforms.dict)]
        /\ oo_transforms.kind = "sequence" =>
              /\ DOMAIN oo_transforms_dict =
                    {oo_transforms.sequence[i] : i \in 1..Len(oo_transforms.sequence)}
              /\ \A k \in DOMAIN oo_transforms_dict :
                    oo_transforms_dict[k] = [num |-> 1, den |-> Len(oo_transforms.sequence)]

\* C14 as stated: after construction the weights are non-negative and sum to
\* one, for a dict and for a sequence alike; bad dicts are refused.
C14_WeightsSumToOne ==
    /\ oo_pc = "constructed" => (NonNegative /\ SumsToOne)
    /\ WeightsAsGiven
    /\ BadWeightsRefused

Distinct(q) == \A i, j \in 1..Len(q) : q[i] = q[j] => i = j

\* C14 amended: the same, the sum being one for a dict and for a sequence whose
\* transforms are all different; a transform given twice in a sequence is kept
\* once with 1 / n.
C14_WeightsSumToOneWhenDistinct ==
    /\ oo_pc = "constructed" =>
          /\ NonNegative
          /\ (oo_transforms.kind = "dict" \/ Distinct(oo_transforms.sequence)) <=> SumsToOne
    /\ WeightsAsGiven
    /\ BadWeightsRefused

C14_Witness ==
    /\ oo_pc = "constructed"
    /\ oo_transforms.kind = "dict"
    /\ \E j, k \in DOMAIN oo_transforms_dict :
          /\ oo_transforms_dict[j] = [num |-> 1, den |-> 3]
          /\ oo_transforms_dict[k] = [num |-> 2, den |-> 3]

\* the indices of axis a that are neither among the first floor(patch_size / 2)
\* nor among the last floor((patch_size - 1) / 2)
Kept(a) ==
    {i \in 0..(spatial_shape[a] - 1) :
        /\ i >= sampler.patch_size[a] \div 2
        /\ i < spatial_shape[a] - (sampler.patch_size[a] - 1) \div 2}

\* `cleared` is `before` with zero wherever some axis index is not kept
ClearedAsStated(before, cleared) ==
    \A v \in Voxels(spatial_shape) :
        /\ cleared[v] = IF \A a \in Axes : Unravel(v, spatial_shape)[a] \in Kept(a)
                        THEN before[v] ELSE 0
        /\ (\A a \in Axes : Unravel(v, spatial_shape)[a] \in Kept(a))
              <=> ValidCenter(Unravel(v, spatial_shape))

\* C15: clear_probability_borders zeroes the first floor(patch_size / 2) and the
\* last floor((patch_size - 1) / 2) indices of each axis and nothing else: the
\* rest, shape - patch_size + 1 indices per axis, keeps its values, a voxel is
\* kept exactly when the patch centered on it lies inside the volume, and a
\* patch size of 1 clears nothing.
C15_BordersClearedExactly ==
    (Fits /\ "data" \in DOMAIN heap) =>
        /\ ClearedAsStated(normalize(make_uniform(RawMap)), heap["data"])
        /\ \A a \in Axes :
              Cardinality(Kept(a)) = spatial_shape[a] - sampler.patch_size[a] + 1
        /\ (\A a \in Axes : sampler.patch_size[a] = 1) =>
              heap["data"] = normalize(make_uniform(RawMap))

C15_Witness ==
    /\ SetUp
    /\ \E a \in Axes :
          /\ sampler.patch_size[a] = 2
          /\ spatial_shape[a] = 3
    /\ \E v, w \in Voxels(spatial_shape) :
          /\ RawMap[v] > 0 /\ ProcessedMap[v] = 0
          /\ RawMap[w] > 0 /\ ProcessedMap[w] > 0

LastPosition == NumVoxels(spatial_shape) - 1

\* C16: a draw above the maximum of the cumulative sums selects the last sorted
\* position, a voxel of the largest probability; every other draw selects the
\* first position whose cumulative sum is strictly greater than the draw.
C16_LastWhenAboveElseFirstGreater ==
    SetUp =>
        \A u \in Draws :
            IF u > ArrayMax(cdf)
            THEN /\ cdf_index(u, cdf) = LastPosition
                 /\ \A v \in Voxels(spatial_shape) :
                       ProcessedMap[v] <= ProcessedMap[sort_indices[LastPosition]]
            ELSE /\ cdf[cdf_index(u, cdf)] > u
                 /\ \A q \in DOMAIN cdf : cdf[q] > u => cdf_index(u, cdf) <= q

\* the cumulative sums never decrease, and the order is a permutation of the
\* flat indices that sorts the normalized values ascending, so that the voxels
\* of value zero come first, their cumulative sums zero
SortedPair(c, order, values) ==
    /\ DOMAIN c = Voxels(spatial_shape)
    /\ \A p, q \in DOMAIN c : p <= q => c[p] <= c[q]
    /\ DOMAIN order = Voxels(spatial_shape)
    /\ {order[p] : p \in DOMAIN order} = Voxels(spatial_shape)
    /\ \A p, q \in DOMAIN order : p <= q => values[order[p]] <= values[order[q]]
    /\ \A p \in DOMAIN order : values[order[p]] = 0 => c[p] = 0

\* a step after set-up leaves the pair as it is
PairKept == SetUp => (cdf' = cdf /\ sort_indices' = sort_indices)

\* C17 as stated: the cumulative sums are non-decreasing and end at exactly 1,
\* sort_indices is a permutation sorting the values ascending (zeros first, with
\* cumulative sum 0), and the pair computed at set-up is the one every later
\* pull uses.
C17_CdfEndsAtOne ==
    [][/\ SetUp' => /\ SortedPair(cdf, sort_indices, flat_map_normalized(ProcessedMap))'
                    /\ cdf'[LastPosition'] = Unit
       /\ PairKept]_vars

\* C17 amended: the same, the last cumulative sum being the sum of the
\* normalized values as rounded: 1 up to half a unit of rounding per voxel.
C17_CdfEndsNearOne ==
    [][/\ SetUp' => /\ SortedPair(cdf, sort_indices, flat_map_normalized(ProcessedMap))'
                    /\ cdf'[LastPosition'] = ArraySum(flat_map_normalized(ProcessedMap))'
                    /\ 2 * (cdf'[LastPosition'] - Unit) <= NumVoxels(spatial_shape)'
                    /\ 2 * (Unit - cdf'[LastPosition']) <= NumVoxels(spatial_shape)'
       /\ PairKept]_vars

C17_Witness ==
    /\ yielded >= 2
    /\ cdf[LastPosition] # Unit
    /\ \E v, w \in Voxels(spatial_shape) :
          /\ ProcessedMap[v] = 0
          /\ ProcessedMap[w] > 0
          /\ sort_indices[0] = v
          /\ sort_indices[LastPosition] = w

\* the 0-based indices of the times above 0.5
AboveHalf == {i \in 0..(Len(times) - 1) : 2 * times[i + 1] > TimeGrid}

\* the 0-based index sort_spectra is to bring to position 0
Wanted ==
    IF AboveHalf = {} THEN Len(spectra) - 1
    ELSE CHOOSE i \in AboveHalf : \A j \in AboveHalf : i <= j

\* C18: sort_spectra exchanges position 0 with the position of the first time
\* above 0.5 (the last position when no time is above 0.5); every other spectrum
\* stays where it was and the list is a permutation of the input spectra. The
\* input list holds spectrum k at 0-based position k.
C18_SwapFirstAboveHalf ==
    motion_pc = "returned" =>
        /\ Len(spectra) = Len(times) + 1
        /\ spectra[1] = Wanted
        /\ spectra[Wanted + 1] = 0
        /\ \A i \in 1..Len(spectra) : i \notin {1, Wanted + 1} => spectra[i] = i - 1
        /\ {spectra[i] : i \in 1..Len(spectra)} = 0..Len(times)

C18_Witness ==
    /\ motion_pc = "returned"
    /\ Len(spectra) >= 3
    /\ AboveHalf # {}
    /\ spectra[1] = 1
    /\ spectra[2] = 0
    /\ 2 * times[1] <= TimeGrid

StrictlyIncreasingTimes == \A i, j \in 1..Len(times) : i < j => times[i] < times[j]

\* C19: with increasing times the spectrum of the unresampled volume (0) is the
\* one written at the k-space centre, index axis_length // 2 of the chosen axis.
C19_OriginalFillsCentre ==
    (motion_pc = "returned" /\ StrictlyIncreasingTimes) =>
        result_spectrum[AxisLength \div 2] = << 0 >>

\* C21: for a 2D image every pose get_params returns has its first two rotation
\* components and its third translation component 0, the other components as
\* drawn; for a 3D image every component is as drawn.
C21_PlanarMotionFor2D ==
    rm_pc = "returned" =>
        /\ Len(rm_degrees) = rm_self.num_transforms
        /\ Len(rm_translation) = rm_self.num_transforms
        /\ \A i \in 1..rm_self.num_transforms : \A j \in 1..3 :
              /\ rm_degrees[i][j] =
                    IF rm_is_2d /\ j \in {1, 2} THEN 0
                    ELSE uniform_(rm_generator, 3 * (i - 1) + (j - 1))
              /\ rm_translation[i][j] =
                    IF rm_is_2d /\ j = 3 THEN 0
                    ELSE uniform_(rm_generator,
                                  3 * rm_self.num_transforms + 3 * (i - 1) + (j - 1))

C21_Witness ==
    /\ rm_pc = "returned"
    /\ rm_is_2d
    /\ rm_self.num_transforms >= 2
    /\ rm_degrees[1] = << 0, 0, 1 >>
    /\ rm_degrees[2] = << 0, 0, -1 >>
    /\ rm_translation[2] = << 1, -1, 0 >>

\* the number of (degrees, translation) pairs
NumPairs == Min2(Len(rt_degrees_params), Len(rt_translation_params))

\* C22: for n pairs get_rigid_transforms returns n + 1 transforms, the first the
\* identity, all centered on the volume's physical center; resample_images
\* returns n + 1 images, the first the input itself and the others each one
\* resampling of the input under its pose, filled with the input's minimum.
C22_IdentityFirstThenOnePerPose ==
    /\ rt_pc \in {"transformed", "resampled"} =>
          /\ Len(rt_transforms) = NumPairs + 1
          /\ \A a \in Axes :
                /\ rt_transforms[1].rotation[a].pi_times = 0
                /\ rt_transforms[1].translation[a] = 0
          /\ \A i \in 1..(NumPairs + 1) : \A a \in Axes :
                rt_transforms[i].center[a] = 2 * rt_image.origin + rt_image.size[a]
          /\ \A i \in 1..NumPairs : \A a \in Axes :
                /\ rt_transforms[i + 1].rotation[a].pi_times = rt_degrees_params[i][a]
                /\ rt_transforms[i + 1].rotation[a].over = 180
                /\ rt_transforms[i + 1].translation[a] = rt_translation_params[i][a]
    /\ rt_pc = "resampled" =>
          /\ Len(rt_images) = NumPairs + 1
          /\ rt_images[1] = rt_image
          /\ \A i \in 1..NumPairs :
                /\ rt_images[i + 1].floating = rt_image
                /\ rt_images[i + 1].transform = rt_transforms[i + 1]
                /\ \A v \in DOMAIN rt_image.data :
                      rt_images[i + 1].default_pixel_value <= rt_image.data[v]
                /\ \E v \in DOMAIN rt_image.data :
                      rt_images[i + 1].default_pixel_value = rt_image.data[v]

C22_Witness ==
    /\ rt_pc = "resampled"
    /\ NumPairs = 2
    /\ Len(rt_images) = 3
    /\ rt_images[3].default_pixel_value = -1
    /\ rt_images[3].transform.translation = << 0, 2, 0 >>
    /\ rt_images[2].transform.translation = << 1, 0, -1 >>

\* C23: demean_transforms left-multiplies every matrix of the trajectory by the
\* inverse of the trajectory's matrix_average, and the matrix_average of the
\* demeaned trajectory is the identity.
C23_DemeanedAverageIsIdentity ==
    lg_pc = "demean_transforms returned" =>
        /\ Len(lg_demeaned) = Len(lg_transforms)
        /\ \A i \in 1..Len(lg_transforms) :
              SameMatrix(lg_demeaned[i],
                         matmul(inv(matrix_average(lg_transforms)), lg_transforms[i]))
        /\ SameMatrix(matrix_average(lg_demeaned), eye)

\* C24: matrix_exp scales by 2^(-j), j = max(0, 1 + floor(log2(norm))) and 0 for
\* a zero norm, and returns the approximant raised to the power 2^j (the
\* approximant itself when j = 0).
C24_ApproximantToThePowerTwoToTheJ ==
    lg_pc = "matrix_exp returned" =>
        /\ lg_exp.j = (IF QLess(norm(lg_A), Q(1, 1)) THEN 0 ELSE 1 + floor_log2(norm(lg_A)))
        /\ SameMatrix(lg_exp.X, matrix_power(lg_exp.approximant, Pow2(lg_exp.j)))

\* C25: every index along the last axis of the result is written from exactly
\* one of the spectra.
C25_EveryIndexWrittenOnce ==
    lg_pc = "add_artifact returned" =>
        \A x \in 0..(lg_length - 1) : Len(lg_result[x]) = 1

\* C26: for every integer num_patches, negative ones included, the sequence
\* yields at most max(num_patches, 0) patches.
C26_AtMostNumPatches ==
    (pc # "created" /\ ~num_patches.none) => yielded <= Max2(num_patches.n, 0)

\* the probabilities sequence g samples from: its own subject's map over its sum
\* (all ones when the map is all zero)
OwnProbabilities(g) ==
    LET m == tw_subjects[g]
        total == m[0] + m[1]
    IN IF total = 0 THEN [v \in {0, 1} |-> FDiv(1, 2)]
       ELSE [v \in {0, 1} |-> FDiv(m[v], total)]

\* the locals of sequence g hold the cumulative distribution of its own map
OwnCdf(g) ==
    LET own == OwnProbabilities(g)
        frame == tw_frames[g]
    IN /\ frame.probability_map = own
       /\ {frame.sort_indices[p] : p \in {0, 1}} = {0, 1}
       /\ own[frame.sort_indices[0]] <= own[frame.sort_indices[1]]
       /\ frame.cdf[0] = own[frame.sort_indices[0]]
       /\ frame.cdf[1] = own[frame.sort_indices[0]] + own[frame.sort_indices[1]]

\* C27: the sampler object's fields stay as they were constructed; whatever the
\* order the two sequences are pulled in, each holds the cumulative distribution
\* of its own subject's map and every patch it yields is centered on a voxel of
\* positive probability in that map, the earlier centers no constraint.
C27_SequencesShareNothing ==
    /\ tw_pulls # << >> => tw_sampler = NewSampler(PairPatchSize, MapName)
    /\ \A g \in DOMAIN tw_pc :
          tw_pc[g] = "suspended" =>
             /\ OwnCdf(g)
             /\ Len(tw_centers[g]) >= 1
             /\ \A i \in 1..Len(tw_centers[g]) :
                   OwnProbabilities(g)[tw_centers[g][i]] > 0

\* the two sequences pulled in turn, the first yielding the same center twice and
\* the second a center of zero probability in the first one's map
C27_Witness ==
    /\ tw_pulls = << 1, 2, 1, 2 >>
    /\ tw_subjects[1] = (0 :> 2 @@ 1 :> 0)
    /\ tw_subjects[2] = (0 :> 0 @@ 1 :> 1)
    /\ tw_centers[1] = << 0, 0 >>
    /\ tw_centers[2] = << 1, 1 >>

\* C28: when apply_transform raises, whatever the image it raises at, no image
\* of the subject has been given new data.
C28_NothingAppliedOnError ==
    ap_pc = "raised" => ap_modified = 0

\* the positions of the invertible members
Invertible == {i \in 1..Len(co_transforms) : co_transforms[i].invertible}

\* C29: for every mix of invertible and non-invertible members, a Compose with
\* no invertible member included, inverse() returns a Compose of the inverses of
\* the invertible members in reverse order, the others left out with a warning
\* each.
C29_InverseReversesInvertibleMembers ==
    co_pc \in {"returned", "raised"} =>
        /\ co_pc = "returned"
        /\ Len(co_inverse) = Cardinality(Invertible)
        /\ \A k \in 1..Len(co_inverse) :
              \E i \in Invertible :
                 /\ Cardinality({l \in Invertible : l >= i}) = k
                 /\ co_inverse[k].inverse_of = co_transforms[i].id
        /\ Len(co_warnings) = Len(co_transforms) - Cardinality(Invertible)

TargetSize(a) == cp_bounds_parameters[2 * a - 1]

\* the two ends of axis a in six bounds parameters, zero when there are none
EndsOf(params, a) ==
    IF params = None THEN << 0, 0 >> ELSE << params[2 * a - 1], params[2 * a] >>

\* C30: on every axis the two ends returned for a size difference n sum to n
\* and differ by at most one (the first the larger); axes larger than the target
\* are cropped and axes smaller are padded, and the shape that comes out is the
\* target shape.
C30_OutputShapeIsTarget ==
    cp_pc = "returned" =>
        /\ \A a \in Axes :
              LET cropped == EndsOf(cp_cropping_params, a)
                  padded == EndsOf(cp_padding_params, a)
              IN /\ cropped[1] + cropped[2] = Max2(cp_source_shape[a] - TargetSize(a), 0)
                 /\ padded[1] + padded[2] = Max2(TargetSize(a) - cp_source_shape[a], 0)
                 /\ cropped[1] - cropped[2] \in {0, 1}
                 /\ padded[1] - padded[2] \in {0, 1}
                 /\ cp_shape[a] = TargetSize(a)
        /\ (cp_cropping_params # None) <=>
              (\E a \in Axes : cp_source_shape[a] > TargetSize(a))
        /\ (cp_padding_params # None) <=>
              (\E a \in Axes : cp_source_shape[a] < TargetSize(a))

C30_Witness ==
    /\ cp_pc = "returned"
    /\ cp_source_shape = << 4, 1, 2 >>
    /\ cp_shape = << 1, 4, 2 >>
    /\ cp_cropping_params = << 2, 1, 0, 0, 0, 0 >>
    /\ cp_padding_params = << 0, 0, 2, 1, 0, 0 >>

====
